---------------------------- MODULE Spec2Model ----------------------------
(***************************************************************************)
(* Approximation, approximation cache and reversal operators of the        *)
(* fj-core kernel.                                                         *)
(*                                                                         *)
(* Numbers.  Curve parameters and angles are integers in units of 1/12 of  *)
(* a full turn (TAU == 12).  Coordinates are exact numbers of the form     *)
(* (a + b*sqrt(3))/2, written <<a, b>>, which is closed under the sums and *)
(* integer multiples that the geometry needs and contains the sine and     *)
(* cosine of every multiple of 30 degrees; two such numbers are equal iff  *)
(* their pairs are.  Tolerances are integers in units of 1/10000.          *)
(***************************************************************************)
EXTENDS Integers, Sequences, FiniteSets, TLC

VARIABLES
    cache,        \* the caller-owned EdgeApproxCache
    last,         \* <<>> or <<r>>: the latest approx_with_cache call and its outcome
    ncalls,       \* number of approx_with_cache calls made against the cache
    sampler_runs, \* instrumentation: every invocation of approx_curve, in order
    returned,     \* instrumentation: (curve, boundary) -> curve points last obtained
    objects,      \* the object store: half-edge handle -> (curve, start vertex)
    geometry,     \* the geometry layer: half-edge handle -> (path, boundary)
    cycle,        \* the current cycle: a sequence of half-edge handles
    original,     \* the cycle before the latest Cycle::reverse
    derived,      \* derive_from: new half-edge handle -> the handle it derives from
    reversals,    \* number of reversals made
    curves,       \* the curve store: curve handle -> the curve it derives from, or 0
    curve_geom,   \* the geometry layer: <<curve, surface>> -> local path
    op,           \* <<>> or <<r>>: the latest topology operation and its outcome
    shell,        \* all_half_edges_with_surface: a sequence of <<half-edge, surface>>
    config,       \* the ValidationConfig
    findings,     \* <<>> or <<s>>: what the latest check of the shell returned
    face,         \* the face under validation: exterior and interior cycles
    errors,       \* <<>> or <<s>>: the errors the latest validation of the face gave
    other,        \* the cycle that `cycle` is joined to
    edge_approx,  \* fj-kernel approx_edge: the vertices, the points given and left
    tree,         \* the trapezoidation Tree: its nodes and the next id
    tree_ops,     \* instrumentation: the splits made and the latest parent_of
    graph,        \* the query Graph: its nodes and the next id
    graph_ops,    \* instrumentation: the sinks inserted and the latest get
    ng_shape,     \* a Shape: its edge_vertices and the latest edge_segments
    load          \* Model::load: the position in the function and its effects

approxVars == <<cache, last, ncalls, sampler_runs, returned>>

coreVars == <<objects, geometry, cycle, original, derived, reversals>>

curveVars == <<curves, curve_geom, op>>

validationVars == <<shell, config, findings, face, errors>>

joinVars == <<other>>

\* the state of the earlier crates: fj-kernel, fj, ng and fj-host
earlierVars == <<edge_approx, tree, tree_ops, graph, graph_ops, ng_shape, load>>

vars == <<approxVars, coreVars, curveVars, validationVars, joinVars, earlierVars>>

(***************************************************************************)
(* Bounds of the model.                                                    *)
(***************************************************************************)
\* number of half-edge approximations made against one cache
MaxCalls == 2
\* number of half-edges of the cycle that is reversed
MaxCycleLen == 3
\* number of times the cycle is reversed
MaxReversals == 2

(***************************************************************************)
(* Exact arithmetic.                                                       *)
(***************************************************************************)
TAU == 12

Scalar(n) == <<2 * n, 0>>

SAdd(p, q) == <<p[1] + q[1], p[2] + q[2]>>

SScale(k, p) == <<k * p[1], k * p[2]>>

IsWhole(s) == s[2] = 0 /\ s[1] % 2 = 0

Whole(s) == s[1] \div 2

\* cos(k * 30 degrees), k = 0..11, as (a + b*sqrt(3))/2
CosTable ==
    << <<2, 0>>, <<0, 1>>, <<1, 0>>, <<0, 0>>, <<-1, 0>>, <<0, -1>>,
       <<-2, 0>>, <<0, -1>>, <<-1, 0>>, <<0, 0>>, <<1, 0>>, <<0, 1>> >>

Cos(k) == CosTable[(k % TAU) + 1]

Sin(k) == Cos(k + 9)

\* the exact quotient n / d of two integers (d divides n in every use)
ExactDiv(n, d) == CHOOSE q \in -(TAU * 4) .. (TAU * 4) : q * d = n

Reverse(s) == [i \in 1 .. Len(s) |-> s[Len(s) + 1 - i]]

(***************************************************************************)
(* Geometry: paths, surfaces, boundaries.                                  *)
(***************************************************************************)
Line2(o, d) == [kind |-> "Line", origin |-> o, direction |-> d]

\* a circle run through counter-clockwise (sense 1) or clockwise (sense -1)
Circle2(c, r) == [kind |-> "Circle", center |-> c, radius |-> r, sense |-> 1]

\* SurfacePath::point_from_path_coords: curve coordinate -> surface point
PointFromPathCoords(path, t) ==
    IF path.kind = "Line"
    THEN << Scalar(path.origin[1] + path.direction[1] * t),
            Scalar(path.origin[2] + path.direction[2] * t) >>
    ELSE << SAdd(Scalar(path.center[1]), SScale(path.radius, Cos(t))),
            SAdd(Scalar(path.center[2]), SScale(path.radius, Sin(path.sense * t))) >>

\* GlobalPath::point_from_path_coords: path coordinate (a scalar) -> 3D point
GlobalPointFromPathCoords(gp, t) ==
    IF gp.kind = "Line"
    THEN [i \in 1 .. 3 |-> SAdd(Scalar(gp.origin[i]), SScale(gp.direction[i], t))]
    ELSE IF IsWhole(t)
         THEN << SAdd(Scalar(gp.center[1]), SScale(gp.radius, Cos(Whole(t)))),
                 SAdd(Scalar(gp.center[2]), SScale(gp.radius, Sin(Whole(t)))),
                 Scalar(gp.center[3]) >>
         ELSE << "off-grid", t >>

\* SurfaceGeometry::point_from_surface_coords: u path at p.u, plus v * p.v
PointFromSurfaceCoords(surface, p) ==
    LET onU == GlobalPointFromPathCoords(surface.u, p[1])
    IN  IF Len(onU) = 3
        THEN [i \in 1 .. 3 |-> SAdd(onU[i], SScale(surface.v[i], p[2]))]
        ELSE onU

\* CurveBoundary::reverse
BoundaryReverse(b) == <<b[2], b[1]>>

\* SurfacePath::reverse: the same points, the parametrization direction flipped
PathReverse(path) ==
    IF path.kind = "Line"
    THEN [path EXCEPT !.direction = <<-@[1], -@[2]>>]
    ELSE [path EXCEPT !.sense = -@]

(***************************************************************************)
(* Path approximation: (path, boundary).approx_with_cache(tolerance, ()).  *)
(* A circle is sampled at the multiples of an increment that lie strictly  *)
(* inside the boundary, in the direction of the boundary; the increment is *)
(* a full turn divided by the number of vertices, the smallest count of at *)
(* least 3 on the grid for which tolerance >= radius * (1 - cos(pi / n)).  *)
(* A line needs no points.                                                 *)
(***************************************************************************)
\* 10000 * (1 - cos(pi / n)) for the vertex counts n on the grid
Deviation(n) ==
    CASE n = 3 -> 5000 [] n = 4 -> 2929 [] n = 6 -> 1340 [] OTHER -> 341

NumVertices(tolerance, radius) ==
    IF radius * Deviation(3) <= tolerance THEN 3
    ELSE IF radius * Deviation(4) <= tolerance THEN 4
    ELSE IF radius * Deviation(6) <= tolerance THEN 6
    ELSE 12

Increment(tolerance, radius) == TAU \div NumVertices(tolerance, radius)

\* PathApproxParams::points: multiples of the increment strictly inside [a, b]
ParamsPoints(incr, boundary) ==
    LET a == boundary[1]
        b == boundary[2]
        min == IF a < b THEN a ELSE b
        max == IF a < b THEN b ELSE a
        lo == (min \div incr) + 1
        hi == IF max % incr = 0 THEN (max \div incr) - 1 ELSE max \div incr
        n == IF hi >= lo THEN hi - lo + 1 ELSE 0
    IN  IF a <= b
        THEN [i \in 1 .. n |-> incr * (lo + i - 1)]
        ELSE [i \in 1 .. n |-> incr * (hi - i + 1)]

\* (GlobalPath, boundary).approx: pairs <<path coordinate, global point>>
ApproxGlobalPath(gp, range, tolerance) ==
    IF gp.kind = "Line"
    THEN << >>
    ELSE LET ts == ParamsPoints(Increment(tolerance, gp.radius), range)
         IN  [i \in 1 .. Len(ts) |->
                 <<ts[i], GlobalPointFromPathCoords(gp, Scalar(ts[i]))>>]

\* (SurfacePath, boundary).approx: pairs <<path coordinate, surface point>>
ApproxSurfacePath(path, boundary, tolerance) ==
    IF path.kind = "Line"
    THEN << >>
    ELSE LET ts == ParamsPoints(Increment(tolerance, path.radius), boundary)
         IN  [i \in 1 .. Len(ts) |-> <<ts[i], PointFromPathCoords(path, ts[i])>>]

(***************************************************************************)
(* Curve approximation (approx_curve).                                     *)
(***************************************************************************)
ApproxPoint(local, global) == [local_form |-> local, global_form |-> global]

\* approx_curve either returns points or aborts in todo!()
Returned(points) == [panic |-> FALSE, points |-> points]

Todo == [panic |-> TRUE, points |-> << >>]

\* faulty variant: a circle on a curved surface is sampled like one on a flat surface
ApproxCurveNoTodo(path, surface, boundary, tolerance) ==
    IF path.kind = "Circle"
    THEN LET pts == ApproxSurfacePath(path, boundary, tolerance)
         IN  Returned([i \in 1 .. Len(pts) |->
                 ApproxPoint(pts[i][1], PointFromSurfaceCoords(surface, pts[i][2]))])
    ELSE LET range_u ==
                 << Whole(PointFromPathCoords(path, boundary[1])[1]),
                    Whole(PointFromPathCoords(path, boundary[2])[1]) >>
             approx_u == ApproxGlobalPath(surface.u, range_u, tolerance)
         IN  Returned([i \in 1 .. Len(approx_u) |->
                 LET u == approx_u[i][1]
                     t == ExactDiv(u - path.origin[1], path.direction[1])
                     point_surface == PointFromPathCoords(path, t)
                 IN  ApproxPoint(u, PointFromSurfaceCoords(surface, point_surface))])

\* faulty variant: a line is given the end of its boundary as a sample
ApproxCurveLineEnd(path, surface, boundary, tolerance) ==
    IF path.kind = "Circle" /\ surface.u.kind = "Circle"
    THEN Todo
    ELSE IF path.kind = "Circle"
    THEN LET pts == ApproxSurfacePath(path, boundary, tolerance)
         IN  Returned([i \in 1 .. Len(pts) |->
                 ApproxPoint(pts[i][1], PointFromSurfaceCoords(surface, pts[i][2]))])
    ELSE Returned(<< ApproxPoint(boundary[2],
                        PointFromSurfaceCoords(surface,
                            PointFromPathCoords(path, boundary[2]))) >>)

ApproxCurve(path, surface, boundary, tolerance) ==
    IF path.kind = "Circle" /\ surface.u.kind = "Circle"
    THEN Todo
    ELSE IF path.kind = "Circle"
    THEN LET pts == ApproxSurfacePath(path, boundary, tolerance)
         IN  Returned([i \in 1 .. Len(pts) |->
                 ApproxPoint(pts[i][1], PointFromSurfaceCoords(surface, pts[i][2]))])
    ELSE LET range_u ==
                 << Whole(PointFromPathCoords(path, boundary[1])[1]),
                    Whole(PointFromPathCoords(path, boundary[2])[1]) >>
             approx_u == ApproxGlobalPath(surface.u, range_u, tolerance)
         IN  Returned([i \in 1 .. Len(approx_u) |->
                 LET u == approx_u[i][1]
                     t == ExactDiv(u - path.origin[1], path.direction[1])
                     point_surface == PointFromPathCoords(path, t)
                 IN  ApproxPoint(u, PointFromSurfaceCoords(surface, point_surface))])

(***************************************************************************)
(* The cache (EdgeApproxCache).  A map is a function on the set of its     *)
(* keys; an Option is << >> (None) or <<x>> (Some(x)).                     *)
(***************************************************************************)
EmptyMap == [k \in {} |-> 0]

\* EdgeApproxCache::default
DefaultCache == [start_position |-> EmptyMap, curve_approx |-> EmptyMap]

\* BTreeMap::get
MapGet(m, k) == IF k \in DOMAIN m THEN <<m[k]>> ELSE << >>

\* BTreeMap::insert: a present key gets the new value
MapInsert(m, k, v) == (k :> v) @@ m

\* VertexApproxCache::get
StartPositionGet(c, handle) == MapGet(c.start_position, handle)

InsertStartPositionApprox(c, handle, position) ==
    [c EXCEPT !.start_position = MapInsert(@, handle, position)]

\* faulty variant: the reversed key is not probed
GetCurveApproxExactOnly(c, handle, boundary) ==
    MapGet(c.curve_approx, <<handle, boundary>>)

\* faulty variant: only the reversed key is probed
GetCurveApproxReversedOnly(c, handle, boundary) ==
    IF <<handle, BoundaryReverse(boundary)>> \in DOMAIN c.curve_approx
    THEN <<Reverse(c.curve_approx[<<handle, BoundaryReverse(boundary)>>])>>
    ELSE << >>

\* faulty variant: the sequence found under the reversed key is returned as stored
GetCurveApproxNoReverse(c, handle, boundary) ==
    IF <<handle, boundary>> \in DOMAIN c.curve_approx
    THEN <<c.curve_approx[<<handle, boundary>>]>>
    ELSE MapGet(c.curve_approx, <<handle, BoundaryReverse(boundary)>>)

GetCurveApprox(c, handle, boundary) ==
    IF <<handle, boundary>> \in DOMAIN c.curve_approx
    THEN <<c.curve_approx[<<handle, boundary>>]>>
    ELSE IF <<handle, BoundaryReverse(boundary)>> \in DOMAIN c.curve_approx
    THEN <<Reverse(c.curve_approx[<<handle, BoundaryReverse(boundary)>>])>>
    ELSE << >>

\* faulty variant: the new entry takes the place of the entries present
InsertCurveApproxEvicting(c, handle, boundary, approx) ==
    [c EXCEPT !.curve_approx = (<<handle, boundary>> :> approx)]

InsertCurveApprox(c, handle, boundary, approx) ==
    [c EXCEPT !.curve_approx = MapInsert(@, <<handle, boundary>>, approx)]

\* which of the two probes of get_curve_approx answers
Lookup(c, handle, boundary) ==
    IF <<handle, boundary>> \in DOMAIN c.curve_approx THEN "exact"
    ELSE IF <<handle, BoundaryReverse(boundary)>> \in DOMAIN c.curve_approx
    THEN "reversed"
    ELSE "miss"

(***************************************************************************)
(* Half-edges (the fields edge.rs reads) and half-edge approximation.      *)
(***************************************************************************)
HalfEdge(curve, start_vertex, path, boundary) ==
    [curve |-> curve, start_vertex |-> start_vertex, path |-> path,
     boundary |-> boundary]

\* HalfEdge::start_position: the path at the start of the boundary
StartPosition(edge) == PointFromPathCoords(edge.path, edge.boundary[1])

\* the surface position at the end of the boundary (where the next edge starts)
EndPosition(edge) == PointFromPathCoords(edge.path, edge.boundary[2])

\* faulty variant: the position is stored without looking the vertex up first
CacheAfterStartOverwrite(c, edge, surface) ==
    InsertStartPositionApprox(c, edge.start_vertex,
        PointFromSurfaceCoords(surface, StartPosition(edge)))

\* lines 32-47: the start vertex, looked up in the cache or computed and stored
CacheAfterStart(c, edge, surface) ==
    IF Len(StartPositionGet(c, edge.start_vertex)) > 0
    THEN c
    ELSE InsertStartPositionApprox(c, edge.start_vertex,
             PointFromSurfaceCoords(surface, StartPosition(edge)))

\* lines 49-71: the curve points, from the cache or from approx_curve
CurveApprox(c, edge, surface, tolerance) ==
    LET cached == GetCurveApprox(c, edge.curve, edge.boundary)
    IN  IF Len(cached) > 0
        THEN Returned(cached[1])
        ELSE ApproxCurve(edge.path, surface, edge.boundary, tolerance)

\* faulty variant: what a hit returns is stored under the requested key as well
CacheAfterCurveAlwaysInsert(c, edge, surface, tolerance) ==
    LET approx == CurveApprox(c, edge, surface, tolerance)
    IN  IF approx.panic
        THEN c
        ELSE InsertCurveApprox(c, edge.curve, edge.boundary, approx.points)

\* lines 49-71: what the curve sub-cache holds afterwards
CacheAfterCurve(c, edge, surface, tolerance) ==
    LET approx == ApproxCurve(edge.path, surface, edge.boundary, tolerance)
    IN  IF Len(GetCurveApprox(c, edge.curve, edge.boundary)) > 0 \/ approx.panic
        THEN c
        ELSE InsertCurveApprox(c, edge.curve, edge.boundary, approx.points)

\* faulty variant: the end of the boundary is appended as a last point
HalfEdgeApproxPointsWithEnd(first, approx, edge) ==
    <<first>> \o
    [i \in 1 .. Len(approx) |->
        ApproxPoint(PointFromPathCoords(edge.path, approx[i].local_form),
                    approx[i].global_form)] \o
    <<ApproxPoint(EndPosition(edge), first.global_form)>>

\* lines 73-84: the first point, then the curve points in surface coordinates
HalfEdgeApproxPoints(first, approx, edge) ==
    <<first>> \o
    [i \in 1 .. Len(approx) |->
        ApproxPoint(PointFromPathCoords(edge.path, approx[i].local_form),
                    approx[i].global_form)]

\* (&HalfEdge, &Surface)::approx_with_cache: <<outcome, cache afterwards>>
ApproxWithCacheResult(c, edge, surface, tolerance) ==
    LET c1 == CacheAfterStart(c, edge, surface)
        first == ApproxPoint(StartPosition(edge),
                             c1.start_position[edge.start_vertex])
        rest == CurveApprox(c1, edge, surface, tolerance)
        c2 == CacheAfterCurve(c1, edge, surface, tolerance)
    IN  IF rest.panic
        THEN << Todo, c1 >>
        ELSE << Returned(HalfEdgeApproxPoints(first, rest.points, edge)), c2 >>

\* Approx::approx: approx_with_cache with a default cache
Approx(edge, surface, tolerance) ==
    ApproxWithCacheResult(DefaultCache, edge, surface, tolerance)[1]

(***************************************************************************)
(* The inputs of the approximation: surfaces, tolerances and half-edges.   *)
(***************************************************************************)
\* the xz-plane: u is the x-axis, v the z-axis
Plane ==
    [u |-> [kind |-> "Line", origin |-> <<0, 0, 0>>, direction |-> <<1, 0, 0>>],
     v |-> <<0, 0, 1>>]

\* u is GlobalPath::circle_from_radius(1), v the z-axis
Cylinder ==
    [u |-> [kind |-> "Circle", center |-> <<0, 0, 0>>, radius |-> 1],
     v |-> <<0, 0, 1>>]

Surfaces == {Plane, Cylinder}

\* 1.0 (as in the tests) and 0.3
Tolerances == {10000, 3000}

LineAlongU == Line2(<<0, 1>>, <<1, 0>>)

LineAgainstU == Line2(<<TAU, 1>>, <<-1, 0>>)

LineOffset == Line2(<<3, 1>>, <<1, 0>>)

LineAlongV == Line2(<<1, 0>>, <<0, 1>>)

UnitCircle == Circle2(<<0, 0>>, 1)

HalfEdges ==
    { HalfEdge(1, 1, LineAlongU, <<0, TAU>>),
      HalfEdge(1, 2, LineAlongU, <<TAU, 0>>),
      HalfEdge(1, 1, UnitCircle, <<0, TAU>>),
      HalfEdge(1, 1, UnitCircle, <<TAU, 0>>),
      HalfEdge(2, 1, LineAgainstU, <<0, TAU>>),
      HalfEdge(2, 2, LineAgainstU, <<TAU, 0>>),
      HalfEdge(2, 2, LineOffset, <<0, 6>>),
      HalfEdge(2, 2, UnitCircle, <<0, 6>>),
      HalfEdge(2, 1, UnitCircle, <<6, 0>>),
      HalfEdge(1, 2, UnitCircle, <<6, 6>>),
      HalfEdge(1, 2, LineAlongV, <<0, 6>>),
      HalfEdge(2, 1, LineAlongV, <<6, 6>>) }

(***************************************************************************)
(* The approximation pass: half-edges approximated against one cache.      *)
(***************************************************************************)
\* a default cache, nothing approximated yet; the object store is not used
InitApprox ==
    /\ cache = DefaultCache
    /\ last = << >>
    /\ ncalls = 0
    /\ sampler_runs = << >>
    /\ returned = EmptyMap
    /\ objects = EmptyMap
    /\ geometry = EmptyMap
    /\ cycle = << >>
    /\ original = << >>
    /\ derived = EmptyMap
    /\ reversals = 0
    /\ curves = EmptyMap
    /\ curve_geom = EmptyMap
    /\ op = << >>
    /\ shell = << >>
    /\ config = [identical_max_distance |-> 0]
    /\ findings = << >>
    /\ face = [exterior |-> << >>, interiors |-> << >>]
    /\ errors = << >>
    /\ other = << >>
    /\ edge_approx = << >>
    /\ tree = << >>
    /\ tree_ops = << >>
    /\ graph = << >>
    /\ graph_ops = << >>
    /\ ng_shape = << >>
    /\ load = << >>

ApproxWithCache(edge, surface, tolerance) ==
    /\ ncalls < MaxCalls
    /\ LET res == ApproxWithCacheResult(cache, edge, surface, tolerance)
           afterStart == CacheAfterStart(cache, edge, surface)
           sampled == Len(GetCurveApprox(afterStart, edge.curve, edge.boundary)) = 0
           rest == CurveApprox(afterStart, edge, surface, tolerance)
           key == <<edge.curve, edge.boundary>>
       IN  /\ cache' = res[2]
           /\ last' = << [edge |-> edge, surface |-> surface,
                          tolerance |-> tolerance,
                          before |-> cache, asked |-> returned,
                          panic |-> res[1].panic, points |-> res[1].points,
                          rest |-> rest.points, sampled |-> sampled] >>
           /\ sampler_runs' =
                  IF sampled
                  THEN Append(sampler_runs,
                              [key |-> key, tolerance |-> tolerance,
                               panic |-> rest.panic, points |-> rest.points])
                  ELSE sampler_runs
           /\ returned' =
                  IF rest.panic THEN returned ELSE MapInsert(returned, key, rest.points)
    /\ ncalls' = ncalls + 1

(***************************************************************************)
(* Topology and the geometry layer: half-edge handles are the naturals     *)
(* 1, 2, ... in the order of insertion into the object store.              *)
(***************************************************************************)
Curves == {1, 2}

Vertices == {1, 2, 3}

Boundaries == {<<0, 6>>, <<6, 0>>}

\* the local path that the geometry layer holds for the half-edges of a curve
PathOf(curve) == IF curve = 1 THEN LineAlongU ELSE UnitCircle

\* HalfEdge::new(curve, start_vertex)
NewHalfEdge(curve, start_vertex) == [curve |-> curve, start_vertex |-> start_vertex]

HalfEdgeGeom(path, boundary) == [path |-> path, boundary |-> boundary]

\* Insert::insert: the handle given to the k-th object inserted after `store`
NewHandle(store, k) == Cardinality(DOMAIN store) + k

\* ObjectSet::pairs: every item with the one after it, the last with the first
Pairs(items) ==
    [i \in 1 .. Len(items) |-> <<items[i], items[(i % Len(items)) + 1]>>]

\* faulty variant: the new half-edge keeps the start vertex of `current`
ReversedHalfEdgeKeepingStart(objs, current, next) ==
    NewHalfEdge(objs[current].curve, objs[current].start_vertex)

\* lines 17-28: the half-edge built from one pair (current, next)
ReversedHalfEdge(objs, current, next) ==
    NewHalfEdge(objs[current].curve, objs[next].start_vertex)

\* faulty variant: the geometry of `current` is passed on as it is
ReversedGeometryKept(geom, current) == geom[current]

\* lines 18-19: the geometry given to the half-edge built from `current`
ReversedGeometry(geom, current) ==
    [geom[current] EXCEPT !.boundary = BoundaryReverse(@)]

\* faulty variant: the collected half-edges are not put in reverse order
ReversedOrderForgotten(edges) == edges

\* lines 29-33: the new handles, collected in pair order, then reversed
ReversedOrder(edges) == Reverse(edges)

\* a cycle of up to MaxCycleLen half-edges in the store; no approximation runs
InitCore ==
    /\ cache = DefaultCache
    /\ last = << >>
    /\ ncalls = 0
    /\ sampler_runs = << >>
    /\ returned = EmptyMap
    /\ \E n \in 0 .. MaxCycleLen :
          /\ cycle = [i \in 1 .. n |-> i]
          /\ objects \in [1 .. n -> [curve : Curves, start_vertex : Vertices]]
          /\ \E bs \in [1 .. n -> Boundaries] :
                geometry = [h \in 1 .. n |->
                               HalfEdgeGeom(PathOf(objects[h].curve), bs[h])]
    /\ original = << >>
    /\ derived = EmptyMap
    /\ reversals = 0
    /\ curves = [c \in Curves |-> 0]
    /\ curve_geom = [k \in Curves \X Surfaces |-> PathOf(k[1])]
    /\ op = << >>
    /\ shell = << >>
    /\ config = [identical_max_distance |-> 0]
    /\ findings = << >>
    /\ face = [exterior |-> << >>, interiors |-> << >>]
    /\ errors = << >>
    /\ other = << >>
    /\ edge_approx = << >>
    /\ tree = << >>
    /\ tree_ops = << >>
    /\ graph = << >>
    /\ graph_ops = << >>
    /\ ng_shape = << >>
    /\ load = << >>

\* impl Reverse for Cycle
CycleReverse ==
    /\ reversals < MaxReversals
    /\ LET pairs == Pairs(cycle)
           n == Len(pairs)
           handle(i) == NewHandle(objects, i)
           edges == [i \in 1 .. n |-> handle(i)]
           index(h) == h - NewHandle(objects, 0)
       IN  /\ objects' =
                  [h \in {handle(i) : i \in 1 .. n} |->
                      ReversedHalfEdge(objects, pairs[index(h)][1], pairs[index(h)][2])]
                  @@ objects
           /\ geometry' =
                  [h \in {handle(i) : i \in 1 .. n} |->
                      ReversedGeometry(geometry, pairs[index(h)][1])]
                  @@ geometry
           /\ derived' =
                  [h \in {handle(i) : i \in 1 .. n} |-> pairs[index(h)][1]] @@ derived
           /\ cycle' = ReversedOrder(edges)
    /\ original' = cycle
    /\ reversals' = reversals + 1

(***************************************************************************)
(* Reversal of the curve coordinate systems (reverse/half_edge.rs and      *)
(* reverse/cycle.rs).                                                      *)
(***************************************************************************)
\* Insert::insert of a curve: the handle given to the k-th curve inserted
NewCurve(store, k) == Cardinality(DOMAIN store) + k

\* faulty variant: the path is reversed, the boundary is left as it was
CoordsReversedGeometryPathOnly(geom, half_edge) ==
    [geom[half_edge] EXCEPT !.path = PathReverse(@)]

\* half_edge.rs lines 19-21: path and boundary of the half-edge, both reversed
CoordsReversedGeometry(geom, half_edge) ==
    [geom[half_edge] EXCEPT !.path = PathReverse(@),
                            !.boundary = BoundaryReverse(@)]

\* half_edge.rs lines 26-28: the new curve with the start vertex of the half-edge
CoordsReversedHalfEdge(objs, curve, half_edge) ==
    NewHalfEdge(curve, objs[half_edge].start_vertex)

\* the half-edges of the cycle that are reversed before one is met whose
\* curve has no local definition on the surface (a fatal lookup failure)
CoordsReversible(surface) ==
    LET defined(i) == <<objects[cycle[i]].curve, surface>> \in DOMAIN curve_geom
        bad == {i \in 1 .. Len(cycle) : ~defined(i)}
    IN  IF bad = {} THEN Len(cycle)
        ELSE (CHOOSE i \in bad : \A k \in bad : i <= k) - 1

\* (&Cycle, &Handle<Surface>)::reverse_curve_coordinate_systems: every
\* half-edge of the cycle, in order, through the half-edge form, which
\* reverses the coordinate system of its curve on the surface first
CycleReverseCurveCoordinateSystems(surface) ==
    /\ reversals < MaxReversals
    /\ LET n == CoordsReversible(surface)
           panic == n < Len(cycle)
           handle(i) == NewHandle(objects, i)
           curve(i) == NewCurve(curves, i)
           index(h) == h - NewHandle(objects, 0)
           cindex(c) == c - NewCurve(curves, 0)
           old(c) == objects[cycle[cindex(c)]].curve
       IN  /\ curves' = [c \in {curve(i) : i \in 1 .. n} |-> old(c)] @@ curves
           /\ curve_geom' =
                  [k \in {<<curve(i), surface>> : i \in 1 .. n} |->
                      PathReverse(curve_geom[<<old(k[1]), surface>>])]
                  @@ curve_geom
           /\ objects' =
                  [h \in {handle(i) : i \in 1 .. n} |->
                      CoordsReversedHalfEdge(objects, curve(index(h)), cycle[index(h)])]
                  @@ objects
           /\ geometry' =
                  [h \in {handle(i) : i \in 1 .. n} |->
                      CoordsReversedGeometry(geometry, cycle[index(h)])]
                  @@ geometry
           /\ derived' = [h \in {handle(i) : i \in 1 .. n} |-> cycle[index(h)]] @@ derived
           /\ cycle' = IF panic THEN cycle ELSE [i \in 1 .. n |-> handle(i)]
           /\ original' = IF panic THEN original ELSE cycle
           /\ op' = << [kind |-> "reverse_curve_coordinate_systems",
                        surface |-> surface, panic |-> panic,
                        curves_before |-> DOMAIN curves] >>
    /\ reversals' = reversals + 1

(***************************************************************************)
(* Validation of a shell: CurveGeometryMismatch                            *)
(* (validation/checks/curve_geometry_mismatch.rs).  A distance is kept as  *)
(* its square: <<p, q>> stands for the squared distance (p + q*sqrt(3))/4. *)
(***************************************************************************)
\* number of half-edges of the shell that is checked
MaxShellLen == 2

\* (a_global - b_global).magnitude(), squared
DistanceSquared(p, q) ==
    LET d == [i \in 1 .. 3 |-> <<p[i][1] - q[i][1], p[i][2] - q[i][2]>>]
        sq(i) == d[i][1] * d[i][1] + 3 * d[i][2] * d[i][2]
        cr(i) == 2 * d[i][1] * d[i][2]
    IN  <<sq(1) + sq(2) + sq(3), cr(1) + cr(2) + cr(3)>>

\* r + q*sqrt(3) > 0
Positive(r, q) ==
    IF q = 0 THEN r > 0
    ELSE IF r >= 0 /\ q > 0 THEN TRUE
    ELSE IF r <= 0 /\ q < 0 THEN FALSE
    ELSE IF r > 0 THEN r * r > 3 * q * q
    ELSE 3 * q * q > r * r

\* faulty variant: a distance equal to the threshold counts as a mismatch
FartherOrEqual(distance2, max_distance) ==
    ~Positive(4 * max_distance * max_distance - distance2[1], -distance2[2])

\* line 114: distance > config.identical_max_distance
Farther(distance2, max_distance) ==
    Positive(distance2[1] - 4 * max_distance * max_distance, distance2[2])

\* faulty variant: the end of the boundary is not sampled
SamplePointsWithoutEnd(boundary) ==
    LET a == boundary[1]
        d == boundary[2]
    IN  << a, a + ExactDiv((d - a) * 1, 3), a + ExactDiv((d - a) * 2, 3) >>

\* lines 91-93 and 97: the four curve coordinates [a, b, c, d] that are checked
SamplePoints(boundary) ==
    LET a == boundary[1]
        d == boundary[2]
    IN  << a, a + ExactDiv((d - a) * 1, 3), a + ExactDiv((d - a) * 2, 3), d >>

\* lines 98-110: a curve coordinate through the path of a half-edge and a surface
GlobalImage(geom, half_edge, surface, point_curve) ==
    PointFromSurfaceCoords(surface,
        PointFromPathCoords(geom[half_edge].path, point_curve))

\* the elements seq[k], k >= i, for which keep[k] holds, in order
RECURSIVE SelectFrom(_, _, _)
SelectFrom(seq, keep, i) ==
    IF i > Len(seq) THEN << >>
    ELSE IF keep[i] THEN <<seq[i]>> \o SelectFrom(seq, keep, i + 1)
    ELSE SelectFrom(seq, keep, i + 1)

\* lines 95-124: the errors of one pair; edge_a's boundary gives the samples
PairErrors(geom, entry_a, entry_b, max_distance) ==
    LET ts == SamplePoints(geom[entry_a[1]].boundary)
        all == [k \in 1 .. Len(ts) |->
                   LET a_global == GlobalImage(geom, entry_a[1], entry_a[2], ts[k])
                       b_global == GlobalImage(geom, entry_b[1], entry_b[2], ts[k])
                   IN  [half_edge_a |-> entry_a[1], half_edge_b |-> entry_b[1],
                        point_curve |-> ts[k],
                        point_a |-> a_global, point_b |-> b_global,
                        distance |-> DistanceSquared(a_global, b_global)]]
        mismatch == [k \in 1 .. Len(ts) |-> Farther(all[k].distance, max_distance)]
    IN  SelectFrom(all, mismatch, 1)

\* faulty variant: a half-edge is checked against itself too
PairFindingsWithSelf(objs, geom, entry_a, entry_b, max_distance) ==
    IF objs[entry_a[1]].curve # objs[entry_b[1]].curve
    THEN << >>
    ELSE PairErrors(geom, entry_a, entry_b, max_distance)

\* faulty variant: the first mismatch of a pair ends the check of that pair
PairFindingsFirstOnly(objs, geom, entry_a, entry_b, max_distance) ==
    IF objs[entry_a[1]].curve # objs[entry_b[1]].curve THEN << >>
    ELSE IF entry_a[1] = entry_b[1] THEN << >>
    ELSE SubSeq(PairErrors(geom, entry_a, entry_b, max_distance), 1, 1)

\* lines 73-127: the closure of filter_map, for one element of the product
PairFindings(objs, geom, entry_a, entry_b, max_distance) ==
    IF objs[entry_a[1]].curve # objs[entry_b[1]].curve THEN << >>
    ELSE IF entry_a[1] = entry_b[1] THEN << >>
    ELSE PairErrors(geom, entry_a, entry_b, max_distance)

\* Iterator::flatten
RECURSIVE Flatten(_)
Flatten(seqs) ==
    IF Len(seqs) = 0 THEN << >> ELSE Head(seqs) \o Flatten(Tail(seqs))

\* faulty variant: every pair is visited in one order only
CartesianProductHalved(items) ==
    LET n == Len(items)
        all == [k \in 1 .. n * n |->
                   <<items[((k - 1) \div n) + 1], items[((k - 1) % n) + 1]>>]
        upper == [k \in 1 .. n * n |-> (k - 1) \div n <= (k - 1) % n]
    IN  SelectFrom(all, upper, 1)

\* Itertools::cartesian_product of a sequence with itself, first index slowest
CartesianProduct(items) ==
    LET n == Len(items)
    IN  [k \in 1 .. n * n |-> <<items[((k - 1) \div n) + 1], items[((k - 1) % n) + 1]>>]

\* CurveGeometryMismatch::check
CurveGeometryMismatch(edges_and_surfaces, objs, geom, cfg) ==
    LET product == CartesianProduct(edges_and_surfaces)
    IN  Flatten([k \in 1 .. Len(product) |->
            PairFindings(objs, geom, product[k][1], product[k][2],
                         cfg.identical_max_distance)])

\* the xy-plane: u is the x-axis, v the y-axis
XYPlane ==
    [u |-> [kind |-> "Line", origin |-> <<0, 0, 0>>, direction |-> <<1, 0, 0>>],
     v |-> <<0, 1, 0>>]

ShellSurfaces == {Plane, XYPlane}

\* identical_max_distance, in units of length
MaxDistances == {0, 1, 5}

LineU == Line2(<<0, 0>>, <<1, 0>>)

LineUShifted == Line2(<<1, 0>>, <<1, 0>>)

LineV == Line2(<<0, 0>>, <<0, 1>>)

\* the half-edges in the store, by handle
StoredHalfEdges ==
    << HalfEdge(1, 1, LineU, <<0, 3>>),
       HalfEdge(1, 2, LineU, <<3, 0>>),
       HalfEdge(1, 1, LineUShifted, <<0, 3>>),
       HalfEdge(1, 1, LineV, <<0, 3>>),
       HalfEdge(2, 2, UnitCircle, <<0, TAU>>),
       HalfEdge(2, 2, UnitCircle, <<6, 0>>) >>

\* a shell of up to MaxShellLen half-edges of the store, each on a surface
InitShell ==
    /\ cache = DefaultCache
    /\ last = << >>
    /\ ncalls = 0
    /\ sampler_runs = << >>
    /\ returned = EmptyMap
    /\ objects = [h \in 1 .. Len(StoredHalfEdges) |->
                     NewHalfEdge(StoredHalfEdges[h].curve, StoredHalfEdges[h].start_vertex)]
    /\ geometry = [h \in 1 .. Len(StoredHalfEdges) |->
                      HalfEdgeGeom(StoredHalfEdges[h].path, StoredHalfEdges[h].boundary)]
    /\ cycle = << >>
    /\ original = << >>
    /\ derived = EmptyMap
    /\ reversals = 0
    /\ curves = [c \in Curves |-> 0]
    /\ curve_geom = EmptyMap
    /\ op = << >>
    /\ \E n \in 0 .. MaxShellLen :
          shell \in [1 .. n -> (1 .. Len(StoredHalfEdges)) \X ShellSurfaces]
    /\ \E d \in MaxDistances : config = [identical_max_distance |-> d]
    /\ findings = << >>
    /\ face = [exterior |-> << >>, interiors |-> << >>]
    /\ errors = << >>
    /\ other = << >>
    /\ edge_approx = << >>
    /\ tree = << >>
    /\ tree_ops = << >>
    /\ graph = << >>
    /\ graph_ops = << >>
    /\ ng_shape = << >>
    /\ load = << >>

\* ValidationCheck::check on the shell; the iterator is collected
CheckShell ==
    /\ findings' = << CurveGeometryMismatch(shell, objects, geometry, config) >>
    /\ UNCHANGED <<shell, config, face, errors, approxVars, coreVars, curveVars, joinVars, earlierVars>>

\* update_half_edge as in tests::curve_geometry_mismatch: the half-edge at
\* position i is replaced by a new one on the same curve and start vertex
\* whose path and boundary are both reversed
ReplaceByReversed(i) ==
    /\ reversals < MaxReversals
    /\ i \in 1 .. Len(shell)
    /\ LET half_edge == shell[i][1]
           new == NewHandle(objects, 1)
       IN  /\ objects' = (new :> NewHalfEdge(objects[half_edge].curve,
                                             objects[half_edge].start_vertex))
                         @@ objects
           /\ geometry' = (new :> [path |-> PathReverse(geometry[half_edge].path),
                                   boundary |-> BoundaryReverse(geometry[half_edge].boundary)])
                          @@ geometry
           /\ shell' = [shell EXCEPT ![i] = <<new, shell[i][2]>>]
           /\ op' = << [kind |-> "update_half_edge", index |-> i,
                        replaced |-> half_edge, by |-> new, before |-> shell] >>
    /\ reversals' = reversals + 1
    /\ findings' = << >>
    /\ UNCHANGED <<config, face, errors, approxVars, cycle, original, derived,
                   curves, curve_geom, joinVars, earlierVars>>

(***************************************************************************)
(* Validation of a face: the winding of interior cycles (validate/face.rs).*)
(***************************************************************************)
\* number of interior cycles of the face that is validated
MaxInteriors == 2

\* the sum of f[x] over the x in set
RECURSIVE SumOver(_, _)
SumOver(f, set) ==
    IF set = {} THEN 0
    ELSE LET x == CHOOSE y \in set : TRUE
         IN  f[x] + SumOver(f, set \ {x})

\* HalfEdge::start_position, from the geometry layer
StartPositionOf(geom, half_edge) ==
    PointFromPathCoords(geom[half_edge].path, geom[half_edge].boundary[1])

\* Cycle::winding: a cycle of one or two arcs winds as its first circle is
\* run through; any other cycle is a polygon of the start positions, wound
\* by the sign of the sum of (b.u - a.u) * (b.v + a.v) over its pairs
Winding(geom, cyc) ==
    IF Len(cyc) < 3
    THEN IF Len(cyc) = 0 \/ geom[cyc[1]].path.kind # "Circle" THEN "invalid"
         ELSE IF (geom[cyc[1]].boundary[1] < geom[cyc[1]].boundary[2])
                    = (geom[cyc[1]].path.sense > 0)
              THEN "Ccw" ELSE "Cw"
    ELSE LET pairs == Pairs(cyc)
             term == [k \in 1 .. Len(pairs) |->
                         LET a == StartPositionOf(geom, pairs[k][1])
                             b == StartPositionOf(geom, pairs[k][2])
                         IN  (Whole(b[1]) - Whole(a[1])) * (Whole(b[2]) + Whole(a[2]))]
             sum == SumOver(term, 1 .. Len(pairs))
         IN  IF sum > 0 THEN "Cw" ELSE IF sum < 0 THEN "Ccw" ELSE "invalid"

\* faulty variant: an interior is reported when its winding differs
InvalidInteriorDiffers(exterior_winding, interior_winding) ==
    exterior_winding # interior_winding

\* line 57: exterior_winding == interior_winding
InvalidInterior(exterior_winding, interior_winding) ==
    exterior_winding = interior_winding

\* faulty variant: interiors are checked whatever the exterior is
CheckInteriorWindingAnyExterior(f, geom, errs) ==
    LET exterior_winding == Winding(geom, f.exterior)
        n == Len(f.interiors)
        all == [k \in 1 .. n |->
                   [exterior_winding |-> exterior_winding,
                    interior_winding |-> Winding(geom, f.interiors[k]),
                    face |-> f]]
        keep == [k \in 1 .. n |-> Len(f.interiors[k]) # 0]
    IN  errs \o SelectFrom(all, keep, 1)

\* FaceValidationError::check_interior_winding
CheckInteriorWinding(f, geom, errs) ==
    IF Len(f.exterior) = 0
    THEN errs
    ELSE LET exterior_winding == Winding(geom, f.exterior)
             n == Len(f.interiors)
             all == [k \in 1 .. n |->
                        [exterior_winding |-> exterior_winding,
                         interior_winding |-> Winding(geom, f.interiors[k]),
                         face |-> f]]
             keep == [k \in 1 .. n |->
                         /\ Len(f.interiors[k]) # 0
                         /\ InvalidInterior(exterior_winding,
                                            Winding(geom, f.interiors[k]))]
         IN  errs \o SelectFrom(all, keep, 1)

\* Cycle::polygon(points), Cycle::circle and Cycle::empty, as shapes to build
Polygon(points) == [kind |-> "polygon", points |-> points]

Circle(center, radius) == [kind |-> "circle", center |-> center, radius |-> radius]

\* the number of half-edges of a shape
SizeOf(shape) == IF shape.kind = "circle" THEN 1 ELSE Len(shape.points)

\* the path and boundary of the i-th half-edge of a shape: a line segment
\* from its point to the next over [0, 1], or the circle over a full turn
ShapeGeometry(shape, i) ==
    IF shape.kind = "circle"
    THEN HalfEdgeGeom(Circle2(shape.center, shape.radius), <<0, TAU>>)
    ELSE LET a == shape.points[i]
             b == shape.points[(i % Len(shape.points)) + 1]
         IN  HalfEdgeGeom(Line2(a, <<b[1] - a[1], b[2] - a[2]>>), <<0, 1>>)

\* the number of half-edges of the first k shapes
RECURSIVE SizeUpTo(_, _)
SizeUpTo(shapes, k) ==
    IF k = 0 THEN 0 ELSE SizeUpTo(shapes, k - 1) + SizeOf(shapes[k])

\* the shape that the half-edge with handle h belongs to
ShapeOfHandle(shapes, h) ==
    CHOOSE k \in 1 .. Len(shapes) : SizeUpTo(shapes, k - 1) < h /\ h <= SizeUpTo(shapes, k)

\* the cycle built from the k-th shape: its handles in order
BuiltCycle(shapes, k) ==
    [i \in 1 .. SizeOf(shapes[k]) |-> SizeUpTo(shapes, k - 1) + i]

TriangleExterior == Polygon(<< <<0, 0>>, <<3, 0>>, <<0, 3>> >>)

TriangleInterior == Polygon(<< <<1, 1>>, <<1, 2>>, <<2, 1>> >>)

CycleShapes ==
    { Polygon(<< >>),
      TriangleExterior,
      TriangleInterior,
      Polygon(<< <<0, 0>>, <<0, 3>>, <<3, 0>> >>),
      Polygon(<< <<1, 1>>, <<2, 1>>, <<2, 2>>, <<1, 2>> >>),
      Circle(<<1, 1>>, 1) }

\* Cycle::reverse on a cycle of the store: the store afterwards and the cycle
CycleReversed(store, cyc) ==
    LET pairs == Pairs(cyc)
        n == Len(pairs)
        base == NewHandle(store.objects, 0)
        new == {base + i : i \in 1 .. n}
    IN  [objects |->
             [h \in new |-> ReversedHalfEdge(store.objects, pairs[h - base][1],
                                             pairs[h - base][2])] @@ store.objects,
         geometry |->
             [h \in new |-> ReversedGeometry(store.geometry, pairs[h - base][1])]
             @@ store.geometry,
         derived |-> [h \in new |-> pairs[h - base][1]] @@ store.derived,
         cycle |-> ReversedOrder([i \in 1 .. n |-> base + i])]

\* interiors().map(|cycle| cycle.reverse(..)).collect()
RECURSIVE ReverseEach(_, _, _)
ReverseEach(store, cycles, done) ==
    IF Len(cycles) = 0
    THEN [store |-> store, cycles |-> done]
    ELSE LET r == CycleReversed(store, Head(cycles))
         IN  ReverseEach([objects |-> r.objects, geometry |-> r.geometry,
                          derived |-> r.derived],
                         Tail(cycles), Append(done, r.cycle))

\* a face on the xy-plane with an exterior and up to MaxInteriors interiors,
\* every half-edge on a curve and a start vertex of its own
InitFace ==
    /\ cache = DefaultCache
    /\ last = << >>
    /\ ncalls = 0
    /\ sampler_runs = << >>
    /\ returned = EmptyMap
    /\ \E exterior \in CycleShapes, n \in 0 .. MaxInteriors :
          \E interiors \in [1 .. n -> CycleShapes] :
             LET shapes == <<exterior>> \o interiors
                 total == SizeUpTo(shapes, Len(shapes))
                 shape(h) == shapes[ShapeOfHandle(shapes, h)]
                 index(h) == h - SizeUpTo(shapes, ShapeOfHandle(shapes, h) - 1)
             IN  /\ objects = [h \in 1 .. total |-> NewHalfEdge(h, h)]
                 /\ geometry = [h \in 1 .. total |-> ShapeGeometry(shape(h), index(h))]
                 /\ curves = [c \in 1 .. total |-> 0]
                 /\ face = [exterior |-> BuiltCycle(shapes, 1),
                            interiors |-> [k \in 1 .. n |-> BuiltCycle(shapes, k + 1)]]
    /\ cycle = << >>
    /\ original = << >>
    /\ derived = EmptyMap
    /\ reversals = 0
    /\ curve_geom = EmptyMap
    /\ op = << >>
    /\ shell = << >>
    /\ config = [identical_max_distance |-> 0]
    /\ findings = << >>
    /\ errors = << >>
    /\ other = << >>
    /\ edge_approx = << >>
    /\ tree = << >>
    /\ tree_ops = << >>
    /\ graph = << >>
    /\ graph_ops = << >>
    /\ ng_shape = << >>
    /\ load = << >>

\* Validate::validate_with_config on the face, with an empty list of errors
ValidateFace ==
    /\ errors' = << CheckInteriorWinding(face, geometry, << >>) >>
    /\ UNCHANGED <<face, shell, config, findings, approxVars, coreVars, curveVars,
                   joinVars, earlierVars>>

\* tests::face_invalid_interior_winding: the face with the same surface and
\* exterior and every interior cycle reversed
ReverseInteriors ==
    /\ reversals < MaxReversals
    /\ LET r == ReverseEach([objects |-> objects, geometry |-> geometry,
                             derived |-> derived], face.interiors, << >>)
       IN  /\ objects' = r.store.objects
           /\ geometry' = r.store.geometry
           /\ derived' = r.store.derived
           /\ face' = [face EXCEPT !.interiors = r.cycles]
    /\ op' = << [kind |-> "reverse_interiors", before |-> face,
                 errors_before |-> errors] >>
    /\ errors' = << >>
    /\ reversals' = reversals + 1
    /\ UNCHANGED <<shell, config, findings, approxVars, cycle, original,
                   curves, curve_geom, joinVars, earlierVars>>

(***************************************************************************)
(* Joining cycles (operations/join/cycle.rs).  Indices are usize values:   *)
(* 0 .. UsizeMax; arithmetic that leaves that range panics in a build with *)
(* overflow checks and wraps around in one without.                        *)
(***************************************************************************)
\* usize::MAX of the model
UsizeMax == 3

\* a - b in usize: <<difference>>, or <<>> for the overflow panic
UsizeSub(a, b, overflow_checks) ==
    IF a >= b THEN <<a - b>>
    ELSE IF overflow_checks THEN << >>
    ELSE <<a - b + UsizeMax + 1>>

\* a + 1 in usize: <<sum>>, or <<>> for the overflow panic
UsizeSucc(a, overflow_checks) ==
    IF a < UsizeMax THEN <<a + 1>>
    ELSE IF overflow_checks THEN << >>
    ELSE <<0>>

\* RangeInclusive<usize> as an iterator: start, start + 1, .., end
RangeItems(range) ==
    IF range[1] <= range[2]
    THEN [k \in 1 .. (range[2] - range[1] + 1) |-> range[1] + k - 1]
    ELSE << >>

\* Iterator::zip: pairs up to the end of the shorter sequence
Zip(xs, ys) ==
    LET n == IF Len(xs) < Len(ys) THEN Len(xs) ELSE Len(ys)
    IN  [k \in 1 .. n |-> <<xs[k], ys[k]>>]

\* ObjectSet::nth_circular: the index is taken modulo the length
NthCircular(items, index) == items[(index % Len(items)) + 1]

Contains(items, handle) == \E i \in 1 .. Len(items) : items[i] = handle

\* UpdateCycle::update_half_edge: the half-edge `handle` of the cycle is
\* replaced by an inserted half-edge, which gets the geometry of `handle`
\* (lines 166-173, 185-192); a handle that is not in the cycle is fatal
UpdateHalfEdge(st, handle, half_edge) ==
    IF ~Contains(st.cycle, handle)
    THEN [st EXCEPT !.panic = TRUE]
    ELSE LET new == NewHandle(st.objects, 1)
         IN  [panic |-> FALSE,
              objects |-> (new :> half_edge) @@ st.objects,
              geometry |-> (new :> st.geometry[handle]) @@ st.geometry,
              derived |-> (new :> handle) @@ st.derived,
              cycle |-> [i \in 1 .. Len(st.cycle) |->
                            IF st.cycle[i] = handle THEN new ELSE st.cycle[i]]]

\* lines 144-196: the closure of the fold, for one (index, index_other)
JoinPair(st, self, oth, index, index_other, overflow_checks) ==
    IF st.panic THEN st
    ELSE IF Len(oth) = 0 \/ Len(self) = 0 THEN [st EXCEPT !.panic = TRUE]
    ELSE
      LET edge_other == NthCircular(oth, index_other)
          next_other == UsizeSucc(index_other, overflow_checks)
          next_index == UsizeSucc(index, overflow_checks)
      IN  IF Len(next_other) = 0 THEN [st EXCEPT !.panic = TRUE]
          ELSE
            LET first ==
                    UpdateHalfEdge(st, NthCircular(self, index),
                        NewHalfEdge(st.objects[edge_other].curve,
                            st.objects[NthCircular(oth, next_other[1])].start_vertex))
            IN  IF first.panic THEN first
                ELSE IF Len(next_index) = 0 THEN [first EXCEPT !.panic = TRUE]
                ELSE LET half_edge == NthCircular(self, next_index[1])
                     IN  UpdateHalfEdge(first, half_edge,
                             NewHalfEdge(st.objects[half_edge].curve,
                                         st.objects[edge_other].start_vertex))

\* lines 142-197: range.zip(range_other).fold(self.clone(), ..)
RECURSIVE JoinFold(_, _, _, _, _, _)
JoinFold(st, self, oth, pairs, k, overflow_checks) ==
    IF k > Len(pairs) THEN st
    ELSE JoinFold(JoinPair(st, self, oth, pairs[k][1], pairs[k][2], overflow_checks),
                  self, oth, pairs, k + 1, overflow_checks)

\* lines 136-140: assert_eq!(range.end() - range.start(), ..) passes
RangesAccepted(range, range_other, overflow_checks) ==
    LET d == UsizeSub(range[2], range[1], overflow_checks)
        d_other == UsizeSub(range_other[2], range_other[1], overflow_checks)
    IN  Len(d) = 1 /\ Len(d_other) = 1 /\ d = d_other

\* impl JoinCycle for Cycle::join_to
JoinToResult(st, self, oth, range, range_other, overflow_checks) ==
    IF ~RangesAccepted(range, range_other, overflow_checks)
    THEN [st EXCEPT !.panic = TRUE]
    ELSE JoinFold(st, self, oth, Zip(RangeItems(range), RangeItems(range_other)),
                  1, overflow_checks)

\* the geometries provided with the half-edges of add_joined_edges
JoinGeoms == {HalfEdgeGeom(LineU, <<0, 3>>), HalfEdgeGeom(LineV, <<3, 0>>)}

\* the curves of the half-edges of the other cycle
OtherCurves == {11, 12}

\* two cycles of up to MaxCycleLen half-edges in the store
InitJoin ==
    /\ cache = DefaultCache
    /\ last = << >>
    /\ ncalls = 0
    /\ sampler_runs = << >>
    /\ returned = EmptyMap
    /\ \E n \in 0 .. MaxCycleLen, m \in 0 .. MaxCycleLen :
          \E cs \in [1 .. m -> OtherCurves] :
             /\ cycle = [i \in 1 .. n |-> i]
             /\ other = [i \in 1 .. m |-> n + i]
             /\ objects = [h \in 1 .. n + m |->
                              IF h <= n THEN NewHalfEdge(h, h)
                              ELSE NewHalfEdge(cs[h - n], 20 + h - n)]
             /\ geometry = [h \in 1 .. n + m |->
                               IF h <= n
                               THEN HalfEdgeGeom(Line2(<<h, 0>>, <<1, 0>>), <<0, 3>>)
                               ELSE HalfEdgeGeom(Line2(<<0, h - n>>, <<0, 1>>), <<3, 0>>)]
    /\ original = << >>
    /\ derived = EmptyMap
    /\ reversals = 0
    /\ curves = [c \in (1 .. MaxCycleLen) \cup OtherCurves |-> 0]
    /\ curve_geom = EmptyMap
    /\ op = << >>
    /\ shell = << >>
    /\ config = [identical_max_distance |-> 0]
    /\ findings = << >>
    /\ face = [exterior |-> << >>, interiors |-> << >>]
    /\ errors = << >>
    /\ edge_approx = << >>
    /\ tree = << >>
    /\ tree_ops = << >>
    /\ graph = << >>
    /\ graph_ops = << >>
    /\ ng_shape = << >>
    /\ load = << >>

\* self.join_to(other, range, range_other, core)
JoinTo(range, range_other, overflow_checks) ==
    /\ Len(op) = 0
    /\ LET st == [panic |-> FALSE, objects |-> objects, geometry |-> geometry,
                  derived |-> derived, cycle |-> cycle]
           r == JoinToResult(st, cycle, other, range, range_other, overflow_checks)
       IN  /\ objects' = r.objects
           /\ geometry' = r.geometry
           /\ derived' = r.derived
           /\ cycle' = IF r.panic THEN cycle ELSE r.cycle
           /\ op' = << [kind |-> "join_to", range |-> range,
                        range_other |-> range_other,
                        overflow_checks |-> overflow_checks,
                        panic |-> r.panic, self |-> cycle,
                        objects_before |-> objects,
                        geometry_before |-> geometry] >>
    /\ original' = cycle
    /\ UNCHANGED <<reversals, curves, curve_geom, other, approxVars, validationVars,
                   earlierVars>>

\* the most (half-edge, geometry) pairs given to add_joined_edges
MaxEdges == 3

\* Itertools::circular_tuple_windows: one window per element, each element
\* with its successor, the last one with the first
CircularTupleWindows(edges) ==
    [i \in 1 .. Len(edges) |-> <<edges[i], edges[(i % Len(edges)) + 1]>>]

\* faulty variant: the curve of the previous half-edge of the window
JoinedHalfEdgeOfPrev(objs, window) ==
    NewHalfEdge(objs[window[1][1]].curve, objs[window[1][1]].start_vertex)

\* lines 105-112: the curve of the half-edge of the window and the start
\* vertex of the previous one
JoinedHalfEdge(objs, window) ==
    NewHalfEdge(objs[window[2][1]].curve, objs[window[1][1]].start_vertex)

\* lines 115-121: what define_curve is called with for a window
DefinedCurve(objs, window, surface) ==
    [curve |-> objs[window[2][1]].curve, surface |-> surface,
     path |-> window[2][2].path]

\* Geometry::define_curve for the first k calls: a later definition of a
\* curve on a surface replaces an earlier one
RECURSIVE DefineCurves(_, _, _)
DefineCurves(definitions, calls, k) ==
    IF k = 0 THEN definitions
    ELSE (<<calls[k].curve, calls[k].surface>> :> calls[k].path)
             @@ DefineCurves(definitions, calls, k - 1)

\* self.add_joined_edges(edges, surface, core)
AddJoinedEdges(edges, surface) ==
    /\ Len(op) = 0
    /\ LET windows == CircularTupleWindows(edges)
           k == Len(windows)
           handle(i) == NewHandle(objects, i)
           index(h) == h - NewHandle(objects, 0)
           calls == [i \in 1 .. k |-> DefinedCurve(objects, windows[i], surface)]
       IN  /\ objects' = [h \in {handle(i) : i \in 1 .. k} |->
                             JoinedHalfEdge(objects, windows[index(h)])] @@ objects
           /\ geometry' = [h \in {handle(i) : i \in 1 .. k} |->
                              windows[index(h)][2][2]] @@ geometry
           /\ curves' = [c \in {NewCurve(curves, i) : i \in 1 .. k} |-> 0] @@ curves
           /\ curve_geom' = DefineCurves(curve_geom, calls, k)
           /\ cycle' = cycle \o [i \in 1 .. k |-> handle(i)]
           /\ op' = << [kind |-> "add_joined_edges", edges |-> edges,
                        surface |-> surface, panic |-> FALSE, self |-> cycle,
                        objects_before |-> objects,
                        geometry_before |-> geometry,
                        defined |-> calls] >>
    /\ original' = cycle
    /\ UNCHANGED <<derived, reversals, other, approxVars, validationVars,
                   earlierVars>>

(***************************************************************************)
(* fj-kernel: exact vertices in the approximation of an edge               *)
(* (crates/fj-kernel/src/algorithms/approx/edge.rs).                       *)
(***************************************************************************)
\* the most points of a curve approximation
MaxPoints == 2

\* Vertex::new(position, global): a position on the curve and a GlobalVertex
Vertex(position, global) == [position |-> position, global |-> [position |-> global]]

\* line 42: vertices.convert(|vertex| (vertex.position(), vertex.global().position()))
Convert(vertices) ==
    [i \in 1 .. Len(vertices) |->
        [k \in 1 .. 2 |-> <<vertices[i][k].position, vertices[i][k].global.position>>]]

\* faulty variant: the loop of an edge without vertices is closed by a copy
\* of the last point
approx_edge_closed_by_last(vertices, points) ==
    IF Len(vertices) = 1
    THEN <<Convert(vertices)[1][1]>> \o points \o <<Convert(vertices)[1][2]>>
    ELSE IF Len(points) > 0 THEN Append(points, points[Len(points)])
    ELSE points

\* approx_edge: vertices is <<>> (VerticesOfEdge::none) or <<[a, b]>>; the
\* points afterwards
approx_edge(vertices, points) ==
    IF Len(vertices) = 1
    THEN <<Convert(vertices)[1][1]>> \o points \o <<Convert(vertices)[1][2]>>
    ELSE IF Len(points) > 0 THEN Append(points, points[1])
    ELSE points

\* the vertices of the test and its points b and c, with a point of the
\* curve approximation that coincides with a vertex
EdgeVertices == {Vertex(0, 123), Vertex(100, 5813)}

CurvePoints == {<<25, 235>>, <<75, 358>>, <<0, 123>>}

PointLists == UNION {[1 .. n -> CurvePoints] : n \in 0 .. MaxPoints}

\* an edge with or without vertices, and the points of its curve
InitEdge ==
    /\ cache = DefaultCache
    /\ last = << >>
    /\ ncalls = 0
    /\ sampler_runs = << >>
    /\ returned = EmptyMap
    /\ objects = EmptyMap
    /\ geometry = EmptyMap
    /\ cycle = << >>
    /\ original = << >>
    /\ derived = EmptyMap
    /\ reversals = 0
    /\ curves = EmptyMap
    /\ curve_geom = EmptyMap
    /\ op = << >>
    /\ shell = << >>
    /\ config = [identical_max_distance |-> 0]
    /\ findings = << >>
    /\ face = [exterior |-> << >>, interiors |-> << >>]
    /\ errors = << >>
    /\ other = << >>
    /\ \E vertices \in {<< >>} \cup {<<<<a, b>>>> : a, b \in EdgeVertices},
          given \in PointLists :
           edge_approx = [vertices |-> vertices, given |-> given,
                          points |-> given, done |-> FALSE]
    /\ tree = << >>
    /\ tree_ops = << >>
    /\ graph = << >>
    /\ graph_ops = << >>
    /\ ng_shape = << >>
    /\ load = << >>

\* approx_edge(vertices, &mut points)
ApproxEdge ==
    /\ ~edge_approx.done
    /\ edge_approx' = [edge_approx EXCEPT
                          !.points = approx_edge(edge_approx.vertices, @),
                          !.done = TRUE]
    /\ UNCHANGED <<tree, tree_ops, graph, graph_ops, ng_shape, load>>

(***************************************************************************)
(* fj: the tree of the trapezoidation (fj/src/geometry/trapezoidation/     *)
(* tree.rs).  Node ids are the naturals in the order of their allocation;  *)
(* an Option is << >> or <<x>>.                                            *)
(***************************************************************************)
\* the most splits made on a tree
MaxSplits == 3

\* Node { parent, kind: NodeKind::Leaf(Leaf::default()) }
LeafNode(parent) ==
    [parent |-> parent, kind |-> "Leaf", above |-> << >>, below |-> << >>,
     branch |-> << >>]

\* Nodes::new
NewNodes == [map |-> EmptyMap, next_id |-> 0, panic |-> FALSE]

\* Nodes::insert_leaf: a leaf without parent under the next id
InsertLeaf(nodes) ==
    [nodes EXCEPT !.map = (nodes.next_id :> LeafNode(<< >>)) @@ @,
                  !.next_id = @ + 1]

\* Nodes::leafs: the ids of the leaf nodes
Leafs(nodes) == {id \in DOMAIN nodes.map : nodes.map[id].kind = "Leaf"}

\* Tree::new
NewTree == InsertLeaf(NewNodes)

\* faulty variant: the split leaf goes below, the new leaf above
NewBranchSwapped(old_leaf_parent, old_leaf_id, new_leaf_id, split_with) ==
    [parent |-> old_leaf_parent, kind |-> "Branch", above |-> <<new_leaf_id>>,
     below |-> <<old_leaf_id>>, branch |-> <<split_with>>]

\* lines 45-55: the new branch node
NewBranch(old_leaf_parent, old_leaf_id, new_leaf_id, split_with) ==
    [parent |-> old_leaf_parent, kind |-> "Branch", above |-> <<old_leaf_id>>,
     below |-> <<new_leaf_id>>, branch |-> <<split_with>>]

\* lines 32-42: <<the parent of the split leaf after the update>>, or << >>
\* for the panic when it is no branch or does not relate to the leaf
UpdatedParent(parent, old_leaf_id, new_branch_id) ==
    IF parent.kind # "Branch" THEN << >>
    ELSE IF parent.above = <<old_leaf_id>>
    THEN <<[parent EXCEPT !.above = <<new_branch_id>>]>>
    ELSE IF parent.below = <<old_leaf_id>>
    THEN <<[parent EXCEPT !.above = <<new_branch_id>>]>>
    ELSE << >>

\* Tree::split: the tree afterwards; with panic set, as the panic left it
Split(t, split_at, split_with) ==
    LET new_leaf_id == t.next_id
        new_branch_id == t.next_id + 1
        t1 == [InsertLeaf(t) EXCEPT !.next_id = @ + 1]
        old_leaf_parent == t.map[split_at].parent
        t2 == [t1 EXCEPT !.map[split_at].parent = <<new_branch_id>>]
        parent == UpdatedParent(t2.map[old_leaf_parent[1]], split_at, new_branch_id)
        t3 == IF Len(old_leaf_parent) = 0 THEN t2
              ELSE IF Len(parent) = 0 THEN [t2 EXCEPT !.panic = TRUE]
              ELSE [t2 EXCEPT !.map[old_leaf_parent[1]] = parent[1]]
    IN  IF t3.panic THEN t3
        ELSE [t3 EXCEPT
                 !.map = [(new_branch_id :>
                              NewBranch(old_leaf_parent, split_at, new_leaf_id,
                                        split_with)) @@ t3.map
                          EXCEPT ![new_leaf_id].parent = <<new_branch_id>>]]

\* Tree::parent_of: None, Some((parent_id, branch, relation)) or a panic
parent_of(t, id) ==
    LET node == t.map[id]
        parent == t.map[node.parent[1]]
    IN  IF Len(node.parent) = 0 THEN [panic |-> FALSE, some |-> << >>]
        ELSE IF parent.kind # "Branch" THEN [panic |-> TRUE, some |-> << >>]
        ELSE IF parent.above = <<id>>
        THEN [panic |-> FALSE,
              some |-> <<[parent_id |-> node.parent[1], branch |-> parent.branch[1],
                          relation |-> "Above"]>>]
        ELSE IF parent.below = <<id>>
        THEN [panic |-> FALSE,
              some |-> <<[parent_id |-> node.parent[1], branch |-> parent.branch[1],
                          relation |-> "Below"]>>]
        ELSE [panic |-> TRUE, some |-> << >>]

\* the values carried by branches (u8 in the tests)
Branches == {0, 1}

\* Tree::new(): a single leaf
InitTree ==
    /\ cache = DefaultCache
    /\ last = << >>
    /\ ncalls = 0
    /\ sampler_runs = << >>
    /\ returned = EmptyMap
    /\ objects = EmptyMap
    /\ geometry = EmptyMap
    /\ cycle = << >>
    /\ original = << >>
    /\ derived = EmptyMap
    /\ reversals = 0
    /\ curves = EmptyMap
    /\ curve_geom = EmptyMap
    /\ op = << >>
    /\ shell = << >>
    /\ config = [identical_max_distance |-> 0]
    /\ findings = << >>
    /\ face = [exterior |-> << >>, interiors |-> << >>]
    /\ errors = << >>
    /\ other = << >>
    /\ edge_approx = << >>
    /\ tree = NewTree
    /\ tree_ops = [splits |-> << >>, queried |-> << >>]
    /\ graph = << >>
    /\ graph_ops = << >>
    /\ ng_shape = << >>
    /\ load = << >>

\* a split or a query has panicked
TreeAborted ==
    tree.panic \/ (Len(tree_ops.queried) = 1 /\ tree_ops.queried[1].panic)

\* tree.split(split_at, split_with)
TreeSplit(split_at, split_with) ==
    /\ ~TreeAborted
    /\ Len(tree_ops.splits) < MaxSplits
    /\ split_at \in Leafs(tree)
    /\ tree' = Split(tree, split_at, split_with)
    /\ tree_ops' = [tree_ops EXCEPT
                       !.splits = Append(@, [split_at |-> split_at,
                                             split_with |-> split_with,
                                             before |-> tree]),
                       !.queried = << >>]
    /\ UNCHANGED <<edge_approx, graph, graph_ops, ng_shape, load>>

\* tree.parent_of(id)
TreeParentOf(id) ==
    /\ ~TreeAborted
    /\ id \in DOMAIN tree.map
    /\ tree_ops' = [tree_ops EXCEPT
                       !.queried = <<[id |-> id,
                                      panic |-> parent_of(tree, id).panic,
                                      some |-> parent_of(tree, id).some]>>]
    /\ UNCHANGED <<tree, edge_approx, graph, graph_ops, ng_shape, load>>

(***************************************************************************)
(* fj: the query graph of the trapezoidation (fj/src/geometry/             *)
(* triangulation/trapezoidation/query/graph.rs).                           *)
(***************************************************************************)
\* the most sinks inserted into a graph
MaxInserts == 3

\* Node::Sink(sink)
SinkNode(sink) == [kind |-> "Sink", sink |-> sink]

\* the sinks of the tests: Sink(u64), with Sink(0) as the default
Sinks == {0, 1, 2}

DefaultSink == 0

\* Graph::new
NewGraph == [nodes |-> (0 :> SinkNode(DefaultSink)), next_id |-> 1]

\* Graph::source
Source == 0

\* Graph::get: the node, or a panic (unwrap) for an id without node
Get(g, id) ==
    IF id \in DOMAIN g.nodes
    THEN [panic |-> FALSE, node |-> <<g.nodes[id]>>]
    ELSE [panic |-> TRUE, node |-> << >>]

\* faulty variant: the id counter is left as it was
InsertSinkReusingId(g, sink) ==
    [g EXCEPT !.nodes = (g.next_id :> SinkNode(sink)) @@ @]

\* Graph::insert_sink: the graph afterwards; the id returned is the next_id
\* of before
InsertSink(g, sink) ==
    [g EXCEPT !.nodes = (g.next_id :> SinkNode(sink)) @@ @,
              !.next_id = @ + 1]

\* Graph::new()
InitGraph ==
    /\ cache = DefaultCache
    /\ last = << >>
    /\ ncalls = 0
    /\ sampler_runs = << >>
    /\ returned = EmptyMap
    /\ objects = EmptyMap
    /\ geometry = EmptyMap
    /\ cycle = << >>
    /\ original = << >>
    /\ derived = EmptyMap
    /\ reversals = 0
    /\ curves = EmptyMap
    /\ curve_geom = EmptyMap
    /\ op = << >>
    /\ shell = << >>
    /\ config = [identical_max_distance |-> 0]
    /\ findings = << >>
    /\ face = [exterior |-> << >>, interiors |-> << >>]
    /\ errors = << >>
    /\ other = << >>
    /\ edge_approx = << >>
    /\ tree = << >>
    /\ tree_ops = << >>
    /\ graph = NewGraph
    /\ graph_ops = [inserted |-> << >>, got |-> << >>]
    /\ ng_shape = << >>
    /\ load = << >>

\* the ids handed out: the source and what insert_sink returned
KnownIds == {Source} \cup {graph_ops.inserted[i].id : i \in 1 .. Len(graph_ops.inserted)}

\* graph.insert_sink(sink)
GraphInsertSink(sink) ==
    /\ Len(graph_ops.inserted) < MaxInserts
    /\ graph' = InsertSink(graph, sink)
    /\ graph_ops' = [graph_ops EXCEPT
                        !.inserted = Append(@, [id |-> graph.next_id,
                                                sink |-> sink,
                                                before |-> graph]),
                        !.got = << >>]
    /\ UNCHANGED <<edge_approx, tree, tree_ops, ng_shape, load>>

\* graph.get(id)
GraphGet(id) ==
    /\ id \in KnownIds
    /\ graph_ops' = [graph_ops EXCEPT
                        !.got = <<[id |-> id, panic |-> Get(graph, id).panic,
                                   node |-> Get(graph, id).node]>>]
    /\ UNCHANGED <<graph, edge_approx, tree, tree_ops, ng_shape, load>>

(***************************************************************************)
(* ng: line segments for the edges of a shape (ng/src/geometry/mod.rs).    *)
(* An edge is the list of points that edge.vertices() gives.               *)
(***************************************************************************)
\* the most edges of a shape, and the most vertices of one edge
MaxShapeEdges == 2

MaxEdgeVertices == 3

\* lines 46-49: the vertices of all edges, one edge after the other
AllVertices(edges) == Flatten(edges)

\* Vec::dedup: of consecutive equal elements only the first is kept
RECURSIVE Dedup(_)
Dedup(vertices) ==
    IF Len(vertices) < 2 THEN vertices
    ELSE IF vertices[1] = vertices[2] THEN Dedup(Tail(vertices))
    ELSE <<vertices[1]>> \o Dedup(Tail(vertices))

\* lines 55-61: slice::windows(2), each window as a segment
Windows2(vertices) ==
    IF Len(vertices) < 2 THEN << >>
    ELSE [i \in 1 .. Len(vertices) - 1 |-> <<vertices[i], vertices[i + 1]>>]

\* Shape::edge_segments, from what edge_vertices returns
EdgeSegments(edges) == Windows2(Dedup(AllVertices(edges)))

\* the points that vertices are taken from
ShapePoints == {1, 2, 3}

\* the edges edge_vertices can return
ShapeEdge == UNION {[1 .. n -> ShapePoints] : n \in 0 .. MaxEdgeVertices}

\* a shape, given by what its edge_vertices returns
InitShape ==
    /\ cache = DefaultCache
    /\ last = << >>
    /\ ncalls = 0
    /\ sampler_runs = << >>
    /\ returned = EmptyMap
    /\ objects = EmptyMap
    /\ geometry = EmptyMap
    /\ cycle = << >>
    /\ original = << >>
    /\ derived = EmptyMap
    /\ reversals = 0
    /\ curves = EmptyMap
    /\ curve_geom = EmptyMap
    /\ op = << >>
    /\ shell = << >>
    /\ config = [identical_max_distance |-> 0]
    /\ findings = << >>
    /\ face = [exterior |-> << >>, interiors |-> << >>]
    /\ errors = << >>
    /\ other = << >>
    /\ edge_approx = << >>
    /\ tree = << >>
    /\ tree_ops = << >>
    /\ graph = << >>
    /\ graph_ops = << >>
    /\ \E n \in 0 .. MaxShapeEdges :
          \E edges \in [1 .. n -> ShapeEdge] :
             ng_shape = [edges |-> edges, segments |-> << >>]
    /\ load = << >>

\* shape.edge_segments(tolerance)
ShapeEdgeSegments ==
    /\ Len(ng_shape.segments) = 0
    /\ ng_shape' = [ng_shape EXCEPT !.segments = <<EdgeSegments(ng_shape.edges)>>]
    /\ UNCHANGED <<edge_approx, tree, tree_ops, graph, graph_ops, load>>

(***************************************************************************)
(* fj-host: loading a model (crates/fj-host/src/model.rs).  Model::load is *)
(* followed step by step; what cargo, the library loader and the model     *)
(* library answer is chosen freely at each step.                           *)
(***************************************************************************)
\* the most calls of Model::load
MaxLoads == 2

\* the values of version_pkg: of the host and of model libraries
Versions == {1, 2}

\* Err(error) and Ok(LoadedShape)
Err(error) == [ok |-> FALSE, value |-> error]

LoadedShape == [ok |-> TRUE, value |-> "LoadedShape"]

\* faulty variant: the versions are not compared
VersionsDifferNever(host, model) == FALSE

\* line 107: fj::version::VERSION_PKG != version_pkg.as_str()
VersionsDiffer(host, model) == host # model

\* what the function did: a step by name, with the version it saw, or 0
Event(name, version) == [name |-> name, version |-> version]

\* the function returns: the result is recorded and the next load can start
Return(result) ==
    [load EXCEPT !.pc = "returned", !.result = <<result>>,
                 !.history = Append(@, result)]

\* an unwrap fails: the function panics
Panic == [load EXCEPT !.pc = "panicked"]

\* the function goes on at pc, after the event
Step(event, pc) == [load EXCEPT !.pc = pc, !.events = Append(@, event)]

\* a Model of a host of some version, not loaded yet
InitLoad ==
    /\ cache = DefaultCache
    /\ last = << >>
    /\ ncalls = 0
    /\ sampler_runs = << >>
    /\ returned = EmptyMap
    /\ objects = EmptyMap
    /\ geometry = EmptyMap
    /\ cycle = << >>
    /\ original = << >>
    /\ derived = EmptyMap
    /\ reversals = 0
    /\ curves = EmptyMap
    /\ curve_geom = EmptyMap
    /\ op = << >>
    /\ shell = << >>
    /\ config = [identical_max_distance |-> 0]
    /\ findings = << >>
    /\ face = [exterior |-> << >>, interiors |-> << >>]
    /\ errors = << >>
    /\ other = << >>
    /\ edge_approx = << >>
    /\ tree = << >>
    /\ tree_ops = << >>
    /\ graph = << >>
    /\ graph_ops = << >>
    /\ ng_shape = << >>
    /\ \E host \in Versions :
          load = [pc |-> "returned", host_version |-> host, events |-> << >>,
                  result |-> << >>, history |-> << >>, registered |-> FALSE]

\* Model::load is called
LoadCall ==
    /\ load.pc = "returned"
    /\ Len(load.history) < MaxLoads
    /\ load' = [load EXCEPT !.pc = "cargo", !.events = << >>, !.result = << >>,
                            !.registered = FALSE]
    /\ UNCHANGED <<edge_approx, tree, tree_ops, graph, graph_ops, ng_shape>>

\* lines 62-75: cargo rustc could not be run, failed or succeeded
CargoRustc(outcome) ==
    /\ load.pc = "cargo"
    /\ load' = CASE outcome = "io_error" -> Return(Err("Io"))
                 [] outcome = "failed" ->
                        [Return(Err("Compile")) EXCEPT
                            !.events = Append(@, Event("build_failed", 0))]
                 [] outcome = "succeeded" -> Step(Event("build_succeeded", 0), "seconds_taken")
    /\ UNCHANGED <<edge_approx, tree, tree_ops, graph, graph_ops, ng_shape>>

\* lines 77-82: the time taken, from the last word of cargo's stderr
SecondsTaken(well_formed) ==
    /\ load.pc = "seconds_taken"
    /\ load' = IF well_formed THEN [load EXCEPT !.pc = "library"] ELSE Panic
    /\ UNCHANGED <<edge_approx, tree, tree_ops, graph, graph_ops, ng_shape>>

\* line 101: libloading::Library::new(&self.lib_path)?
LibraryNew(loaded) ==
    /\ load.pc = "library"
    /\ load' = IF loaded THEN Step(Event("library_loaded", 0), "version_symbol")
               ELSE Return(Err("LibLoading"))
    /\ UNCHANGED <<edge_approx, tree, tree_ops, graph, graph_ops, ng_shape>>

\* lines 103-104: lib.get(b"version_pkg")?
GetVersionPkg(found) ==
    /\ load.pc = "version_symbol"
    /\ load' = IF found THEN [load EXCEPT !.pc = "version"]
               ELSE Return(Err("LibLoading"))
    /\ UNCHANGED <<edge_approx, tree, tree_ops, graph, graph_ops, ng_shape>>

\* lines 106-117: version_pkg() is called and compared with the host's
CheckVersion(version_pkg) ==
    /\ load.pc = "version"
    /\ load' = IF VersionsDiffer(load.host_version, version_pkg)
               THEN [Return(Err("VersionMismatch")) EXCEPT
                        !.events = Append(@, Event("version_pkg", version_pkg))]
               ELSE Step(Event("version_pkg", version_pkg), "init_symbol")
    /\ UNCHANGED <<edge_approx, tree, tree_ops, graph, graph_ops, ng_shape>>

\* lines 119-120: lib.get(abi::INIT_FUNCTION_NAME.as_bytes())?
GetInit(found) ==
    /\ load.pc = "init_symbol"
    /\ load' = IF found THEN [load EXCEPT !.pc = "init"]
               ELSE Return(Err("LibLoading"))
    /\ UNCHANGED <<edge_approx, tree, tree_ops, graph, graph_ops, ng_shape>>

\* lines 122-129: init is invoked with a new Host; the model library may or
\* may not register a model, and returns Ok or Err
Init(succeeds, registers) ==
    /\ load.pc = "init"
    /\ load' = IF succeeds
               THEN [Step(Event("init_ok", 0), "take_model") EXCEPT
                        !.registered = registers]
               ELSE [Return(Err("InitializeModel")) EXCEPT
                        !.events = Append(@, Event("init_err", 0)),
                        !.registered = registers]
    /\ UNCHANGED <<edge_approx, tree, tree_ops, graph, graph_ops, ng_shape>>

\* line 131: host.take_model().ok_or(Error::NoModelRegistered)?
TakeModel ==
    /\ load.pc = "take_model"
    /\ load' = IF load.registered THEN Step(Event("model_taken", 0), "shape")
               ELSE Return(Err("NoModelRegistered"))
    /\ UNCHANGED <<edge_approx, tree, tree_ops, graph, graph_ops, ng_shape>>

\* lines 133-139: model.shape(&host).map_err(Error::Shape)?, then Ok
ModelShape(succeeds) ==
    /\ load.pc = "shape"
    /\ load' = IF succeeds
               THEN [Return(LoadedShape) EXCEPT !.events = Append(@, Event("shape", 0))]
               ELSE Return(Err("Shape"))
    /\ UNCHANGED <<edge_approx, tree, tree_ops, graph, graph_ops, ng_shape>>

(***************************************************************************)
(* Specifications.                                                         *)
(***************************************************************************)
NextApprox ==
    \E edge \in HalfEdges, surface \in Surfaces, tolerance \in Tolerances :
        ApproxWithCache(edge, surface, tolerance) /\ UNCHANGED <<coreVars, curveVars, validationVars, joinVars, earlierVars>>

NextReverse == CycleReverse /\ UNCHANGED <<approxVars, curveVars, validationVars, joinVars, earlierVars>>

SpecApprox == InitApprox /\ [][NextApprox]_vars

SpecReverse == InitCore /\ [][NextReverse]_vars

NextCoords ==
    \E surface \in Surfaces :
        CycleReverseCurveCoordinateSystems(surface)
            /\ UNCHANGED <<approxVars, validationVars, joinVars, earlierVars>>

SpecCoords == InitCore /\ [][NextCoords]_vars

NextShell == CheckShell \/ \E i \in 1 .. MaxShellLen : ReplaceByReversed(i)

SpecShell == InitShell /\ [][NextShell]_vars

NextFace == ValidateFace \/ ReverseInteriors

SpecFace == InitFace /\ [][NextFace]_vars

Usizes == 0 .. UsizeMax

\* the half-edges that can be provided, each with a geometry
ProvidedEdges ==
    UNION {[1 .. k -> {other[i] : i \in 1 .. Len(other)} \X JoinGeoms] :
              k \in 0 .. MaxEdges}

NextJoin ==
    \/ \E range \in Usizes \X Usizes, range_other \in Usizes \X Usizes,
          overflow_checks \in BOOLEAN :
           JoinTo(range, range_other, overflow_checks)
    \/ \E edges \in ProvidedEdges, surface \in Surfaces :
           AddJoinedEdges(edges, surface)

SpecJoin == InitJoin /\ [][NextJoin]_vars


NextEdge ==
    ApproxEdge /\ UNCHANGED <<approxVars, coreVars, curveVars, validationVars, joinVars>>

SpecEdge == InitEdge /\ [][NextEdge]_vars


\* the node ids that MaxSplits splits can allocate
NodeIds == 0 .. 2 * MaxSplits

NextTree ==
    \/ \E split_at \in NodeIds, split_with \in Branches :
          TreeSplit(split_at, split_with)
          /\ UNCHANGED <<approxVars, coreVars, curveVars, validationVars, joinVars>>
    \/ \E id \in NodeIds :
          TreeParentOf(id)
          /\ UNCHANGED <<approxVars, coreVars, curveVars, validationVars, joinVars>>

SpecTree == InitTree /\ [][NextTree]_vars


NextGraph ==
    \/ \E sink \in Sinks :
          GraphInsertSink(sink)
          /\ UNCHANGED <<approxVars, coreVars, curveVars, validationVars, joinVars>>
    \/ \E id \in 0 .. MaxInserts :
          GraphGet(id)
          /\ UNCHANGED <<approxVars, coreVars, curveVars, validationVars, joinVars>>

SpecGraph == InitGraph /\ [][NextGraph]_vars


NextShape ==
    ShapeEdgeSegments
    /\ UNCHANGED <<approxVars, coreVars, curveVars, validationVars, joinVars>>

SpecShape == InitShape /\ [][NextShape]_vars


NextLoad ==
    /\ UNCHANGED <<approxVars, coreVars, curveVars, validationVars, joinVars>>
    /\ \/ LoadCall
       \/ \E outcome \in {"io_error", "failed", "succeeded"} : CargoRustc(outcome)
       \/ \E well_formed \in BOOLEAN : SecondsTaken(well_formed)
       \/ \E loaded \in BOOLEAN : LibraryNew(loaded)
       \/ \E found \in BOOLEAN : GetVersionPkg(found)
       \/ \E version_pkg \in Versions : CheckVersion(version_pkg)
       \/ \E found \in BOOLEAN : GetInit(found)
       \/ \E succeeds \in BOOLEAN, registers \in BOOLEAN : Init(succeeds, registers)
       \/ TakeModel
       \/ \E succeeds \in BOOLEAN : ModelShape(succeeds)

SpecLoad == InitLoad /\ [][NextLoad]_vars

(***************************************************************************)
(* Properties of the approximation cache.                                  *)
(***************************************************************************)
Called == Len(last) = 1

Key(edge) == <<edge.curve, edge.boundary>>

ReversedKey(edge) == <<edge.curve, BoundaryReverse(edge.boundary)>>

\* C1 (cache reversal): once a half-edge on curve c with boundary [a, d] has
\* been approximated with the cache, a half-edge on c with boundary [d, a]
\* gets as curve points the [a, d] sequence in reverse order, and approx_curve
\* is not invoked for it.
CacheReversal ==
    Called =>
        LET r == last[1]
        IN  ReversedKey(r.edge) \in DOMAIN r.asked =>
                /\ ~r.panic
                /\ ~r.sampled
                /\ r.rest = Reverse(r.asked[ReversedKey(r.edge)])

\* a request for [d, a], a # d, after [a, d] gave at least two curve points
CacheReversalWitness ==
    /\ Called
    /\ last[1].edge.boundary[1] # last[1].edge.boundary[2]
    /\ ReversedKey(last[1].edge) \in DOMAIN last[1].asked
    /\ Len(last[1].asked[ReversedKey(last[1].edge)]) >= 2
    /\ last[1].rest # last[1].asked[ReversedKey(last[1].edge)]

\* C2 (insertion policy): every stored curve entry has as key the (curve,
\* boundary) pair of a run of approx_curve and as value that run's result,
\* every run that returned is stored, and a request served through the
\* reversed key stores nothing: its key is not added and no entry changes.
InsertionPolicy ==
    /\ \A k \in DOMAIN cache.curve_approx :
          \E i \in 1 .. Len(sampler_runs) :
              /\ sampler_runs[i].key = k
              /\ ~sampler_runs[i].panic
              /\ sampler_runs[i].points = cache.curve_approx[k]
    /\ \A i \in 1 .. Len(sampler_runs) :
          ~sampler_runs[i].panic =>
              /\ sampler_runs[i].key \in DOMAIN cache.curve_approx
              /\ cache.curve_approx[sampler_runs[i].key] = sampler_runs[i].points
    /\ Called /\ Lookup(last[1].before, last[1].edge.curve,
                        last[1].edge.boundary) = "reversed" =>
          /\ cache.curve_approx = last[1].before.curve_approx
          /\ Key(last[1].edge) \notin DOMAIN cache.curve_approx

\* a request was served through the reversed key of a stored, non-empty entry
InsertionPolicyWitness ==
    /\ Called
    /\ Lookup(last[1].before, last[1].edge.curve, last[1].edge.boundary) = "reversed"
    /\ Len(last[1].rest) >= 2
    /\ ~last[1].panic

(***************************************************************************)
(* Properties of the half-edge approximation.                              *)
(***************************************************************************)
\* the start vertex's position as computed from this half-edge and surface
OwnStartPosition(edge, surface) ==
    PointFromSurfaceCoords(surface, StartPosition(edge))

\* every run of approx_curve behind the cache used the tolerance of the call
FixedTolerance(r) ==
    \A i \in 1 .. Len(sampler_runs) : sampler_runs[i].tolerance = r.tolerance

SameOutcome(r, outcome) == r.panic = outcome.panic /\ r.points = outcome.points

\* the entries of cache c that a call for (edge, surface, tolerance) reuses were
\* computed from geometry that agrees with the half-edge's own
ReusedEntriesAgree(c, edge, surface, tolerance) ==
    LET own == ApproxCurve(edge.path, surface, edge.boundary, tolerance)
        ownReversed ==
            ApproxCurve(edge.path, surface, BoundaryReverse(edge.boundary), tolerance)
    IN  /\ edge.start_vertex \in DOMAIN c.start_position =>
               c.start_position[edge.start_vertex] = OwnStartPosition(edge, surface)
        /\ Key(edge) \in DOMAIN c.curve_approx =>
               ~own.panic /\ c.curve_approx[Key(edge)] = own.points
        /\ Key(edge) \notin DOMAIN c.curve_approx
               /\ ReversedKey(edge) \in DOMAIN c.curve_approx =>
               ~ownReversed.panic /\ c.curve_approx[ReversedKey(edge)] = ownReversed.points

\* C3 as claimed (determinism across cache states): for a fixed tolerance, a
\* half-edge approximated with a cache populated by any earlier approximations
\* gives the same point sequence as with a default cache.
DeterminismAnyCache ==
    Called /\ FixedTolerance(last[1]) =>
        SameOutcome(last[1],
                    Approx(last[1].edge, last[1].surface, last[1].tolerance))

\* C3 as amended: for a fixed tolerance, the outcome with a populated cache is
\* that with a default cache whenever the entries the call reuses (the start
\* vertex's position, the curve entry under the key or the reversed key) were
\* computed from geometry agreeing with this half-edge's own.
DeterminismAgreeingCache ==
    Called /\ FixedTolerance(last[1])
           /\ ReusedEntriesAgree(last[1].before, last[1].edge, last[1].surface,
                                 last[1].tolerance) =>
        SameOutcome(last[1],
                    Approx(last[1].edge, last[1].surface, last[1].tolerance))

\* a call served from an agreeing entry under the reversed key, at least two
\* curve points, and a cached start vertex
DeterminismWitness ==
    /\ Called
    /\ FixedTolerance(last[1])
    /\ ReusedEntriesAgree(last[1].before, last[1].edge, last[1].surface,
                          last[1].tolerance)
    /\ Lookup(last[1].before, last[1].edge.curve, last[1].edge.boundary) = "reversed"
    /\ last[1].edge.start_vertex \in DOMAIN last[1].before.start_position
    /\ Len(last[1].rest) >= 2

\* the point the end vertex would contribute: the end of the boundary
EndVertexPoint(edge, surface) ==
    ApproxPoint(EndPosition(edge), PointFromSurfaceCoords(surface, EndPosition(edge)))

\* half_edge.rs lines 53-68: start and curve points alike go through the path
HalfEdgeApproxPointsOfHandle(start, rest, path) ==
    LET all == <<start>> \o rest
    IN  [i \in 1 .. Len(all) |->
            ApproxPoint(PointFromPathCoords(path, all[i].local_form),
                        all[i].global_form)]

\* C4 (shape of a half-edge approximation): the first point is the start
\* vertex (its surface position with the position looked up for the vertex),
\* the others are the curve approximation of (curve, boundary) in its order,
\* one point each; the end vertex is not appended, so a half-edge contributes
\* exactly one vertex point.  Both implementations build the same sequence.
HalfEdgeApproxShape ==
    Called /\ ~last[1].panic =>
        LET r == last[1]
            v == r.edge.start_vertex
            stored == GetCurveApprox(cache, r.edge.curve, r.edge.boundary)
        IN  /\ Len(r.points) = 1 + Len(r.rest)
            /\ r.points[1] = ApproxPoint(StartPosition(r.edge), cache.start_position[v])
            /\ stored = <<r.rest>>
            /\ \A i \in 1 .. Len(r.rest) :
                  /\ r.points[i + 1].global_form = r.rest[i].global_form
                  /\ r.points[i + 1].local_form =
                         PointFromPathCoords(r.edge.path, r.rest[i].local_form)
                  /\ r.points[i + 1] # EndVertexPoint(r.edge, r.surface)
            /\ r.points =
                   HalfEdgeApproxPointsOfHandle(
                       ApproxPoint(r.edge.boundary[1], cache.start_position[v]),
                       r.rest, r.edge.path)

\* a half-edge with distinct start and end positions and at least two curve points
HalfEdgeApproxShapeWitness ==
    /\ Called
    /\ ~last[1].panic
    /\ Len(last[1].points) >= 3
    /\ StartPosition(last[1].edge) # EndPosition(last[1].edge)

\* a call made with a default cache, as Approx::approx makes it
FreshCall == Called /\ last[1].before = DefaultCache

\* C5 (line on a flat surface): a line half-edge on a surface whose u path is a
\* line gives, at every tolerance, exactly one point: the start vertex's surface
\* position with its global position.
LineOnFlatSurface ==
    FreshCall /\ last[1].edge.path.kind = "Line"
              /\ last[1].surface.u.kind = "Line" =>
        /\ ~last[1].panic
        /\ last[1].points =
               << ApproxPoint(StartPosition(last[1].edge),
                              OwnStartPosition(last[1].edge, last[1].surface)) >>

\* a line half-edge with distinct ends was approximated on the plane
LineOnFlatSurfaceWitness ==
    /\ FreshCall
    /\ last[1].edge.path.kind = "Line"
    /\ last[1].surface.u.kind = "Line"
    /\ last[1].edge.boundary[1] # last[1].edge.boundary[2]
    /\ Len(last[1].points) = 1

\* the points the u circle's approximation gives, each mapped back onto the
\* line: the point of the line at t = (u - origin.u) / direction.u
MappedBackOntoLine(edge, surface, tolerance) ==
    LET range_u == << Whole(StartPosition(edge)[1]), Whole(EndPosition(edge)[1]) >>
        approx_u == ApproxGlobalPath(surface.u, range_u, tolerance)
    IN  [i \in 1 .. Len(approx_u) |->
            LET t == ExactDiv(approx_u[i][1] - edge.path.origin[1],
                              edge.path.direction[1])
                point_surface == PointFromPathCoords(edge.path, t)
            IN  ApproxPoint(point_surface,
                            PointFromSurfaceCoords(surface, point_surface))]

\* C6 (line on a curved surface): a line half-edge on a surface whose u path
\* is a circle gives the start vertex point, then the points of the u circle's
\* approximation over the induced u range, each mapped back onto the line by
\* t = (u - origin.u) / direction.u, in the same order.
LineOnCurvedSurface ==
    FreshCall /\ last[1].edge.path.kind = "Line"
              /\ last[1].surface.u.kind = "Circle" =>
        /\ ~last[1].panic
        /\ last[1].points =
               << ApproxPoint(StartPosition(last[1].edge),
                              OwnStartPosition(last[1].edge, last[1].surface)) >>
               \o MappedBackOntoLine(last[1].edge, last[1].surface,
                                     last[1].tolerance)

\* C7 as claimed (unsupported combination): a circle half-edge on a surface
\* whose u path is a circle aborts, whatever the cache holds.
CircleOnCurvedSurfaceAlwaysAborts ==
    Called /\ last[1].edge.path.kind = "Circle"
           /\ last[1].surface.u.kind = "Circle" =>
        last[1].panic /\ last[1].points = << >>

\* C7 as amended: a circle half-edge on a surface whose u path is a circle
\* aborts, returning no points and storing no curve entry, for every cache
\* that holds no entry for its curve and boundary in either direction; with
\* such an entry approx_curve is not reached and the stored points are returned.
CircleOnCurvedSurfaceAbortsOnMiss ==
    Called /\ last[1].edge.path.kind = "Circle"
           /\ last[1].surface.u.kind = "Circle" =>
        LET r == last[1]
            lookup == Lookup(r.before, r.edge.curve, r.edge.boundary)
        IN  /\ lookup = "miss" =>
                  /\ r.panic
                  /\ r.points = << >>
                  /\ cache.curve_approx = r.before.curve_approx
            /\ lookup # "miss" => ~r.panic /\ ~r.sampled

\* the abort happened with a cache that already held curve entries
CircleOnCurvedSurfaceWitness ==
    /\ Called
    /\ last[1].edge.path.kind = "Circle"
    /\ last[1].surface.u.kind = "Circle"
    /\ last[1].panic
    /\ DOMAIN last[1].before.curve_approx # {}

\* C8 (vertex sub-cache): the position recorded for a vertex is never
\* replaced, and the first point of every half-edge approximated with the
\* cache has the position recorded for its start vertex, whatever the
\* half-edge's curve, boundary, path or surface.
VertexSubCache ==
    Called =>
        LET r == last[1]
            v == r.edge.start_vertex
        IN  /\ \A w \in DOMAIN r.before.start_position :
                  /\ w \in DOMAIN cache.start_position
                  /\ cache.start_position[w] = r.before.start_position[w]
            /\ v \in DOMAIN cache.start_position
            /\ DOMAIN cache.start_position = DOMAIN r.before.start_position \cup {v}
            /\ ~r.panic => r.points[1].global_form = cache.start_position[v]
            /\ v \notin DOMAIN r.before.start_position =>
                  cache.start_position[v] = OwnStartPosition(r.edge, r.surface)

\* a second half-edge starting at a cached vertex whose own geometry gives
\* another position
VertexSubCacheWitness ==
    /\ Called
    /\ ~last[1].panic
    /\ last[1].edge.start_vertex \in DOMAIN last[1].before.start_position
    /\ OwnStartPosition(last[1].edge, last[1].surface)
           # last[1].before.start_position[last[1].edge.start_vertex]

(***************************************************************************)
(* Properties of Cycle::reverse.                                           *)
(***************************************************************************)
Reversed == reversals > 0

Range(seq) == {seq[i] : i \in 1 .. Len(seq)}

\* position in the original cycle of the half-edge after position i
After(i) == (i % Len(original)) + 1

\* position in the original cycle from which position k of the result is built
BuiltFrom(k) == Len(original) + 1 - k

\* C9 (construction): the reversed cycle has as many half-edges as the
\* original, all of them new handles; read in order they are built from
\* e_(n-1), ..., e_0, and the one built from e_i has e_i's curve, the start
\* vertex of e_(i+1 mod n) and e_i's geometry with only the boundary reversed.
CycleReverseConstruction ==
    Reversed =>
        /\ Len(cycle) = Len(original)
        /\ Cardinality(Range(cycle)) = Len(cycle)
        /\ Range(cycle) \cap Range(original) = {}
        /\ Range(cycle) \subseteq DOMAIN objects
        /\ \A k \in 1 .. Len(cycle) :
              LET new == cycle[k]
                  old == original[BuiltFrom(k)]
                  next == original[After(BuiltFrom(k))]
              IN  /\ derived[new] = old
                  /\ objects[new].curve = objects[old].curve
                  /\ objects[new].start_vertex = objects[next].start_vertex
                  /\ geometry[new].path = geometry[old].path
                  /\ geometry[new].boundary = BoundaryReverse(geometry[old].boundary)

\* a cycle of three half-edges with three start vertices has been reversed
CycleReverseConstructionWitness ==
    /\ Reversed
    /\ Len(cycle) = 3
    /\ Cardinality({objects[original[i]].start_vertex : i \in 1 .. 3}) = 3

StartVertex(cyc, i) == objects[cyc[i]].start_vertex

\* the vertex where half-edge i of a cycle ends: where the next one starts
EndVertex(cyc, i) == objects[cyc[(i % Len(cyc)) + 1]].start_vertex

\* the number of half-edges of a cycle on a curve
CurveCount(cyc, curve) ==
    Cardinality({i \in 1 .. Len(cyc) : objects[cyc[i]].curve = curve})

\* C10 (reversal flips direction only): in the reversed cycle the half-edge on
\* each curve starts where the original half-edge on that curve ended and ends
\* where it started; the curves (with multiplicity) and the vertices are those
\* of the original, and the start vertices come in the reverse cyclic order.
CycleReverseFlipsDirection ==
    Reversed =>
        /\ \A k \in 1 .. Len(cycle) :
              \E i \in 1 .. Len(original) :
                  /\ derived[cycle[k]] = original[i]
                  /\ objects[cycle[k]].curve = objects[original[i]].curve
                  /\ StartVertex(cycle, k) = EndVertex(original, i)
                  /\ EndVertex(cycle, k) = StartVertex(original, i)
        /\ \A c \in Curves : CurveCount(cycle, c) = CurveCount(original, c)
        /\ {StartVertex(cycle, k) : k \in 1 .. Len(cycle)}
               = {StartVertex(original, i) : i \in 1 .. Len(original)}
        /\ \E shift \in 0 .. Len(original) :
              \A k \in 1 .. Len(cycle) :
                  StartVertex(cycle, k)
                      = StartVertex(original,
                                    ((Len(original) - k + shift) % Len(original)) + 1)

\* a reversed cycle of three half-edges on which start and end vertices differ
CycleReverseFlipsDirectionWitness ==
    /\ Reversed
    /\ Len(cycle) = 3
    /\ \A k \in 1 .. 3 : StartVertex(cycle, k) # EndVertex(cycle, k)
    /\ Cardinality({objects[cycle[k]].curve : k \in 1 .. 3}) = 2

(***************************************************************************)
(* Properties of the reversal of curve coordinate systems.                 *)
(***************************************************************************)
CoordsReversed ==
    /\ Len(op) = 1
    /\ op[1].kind = "reverse_curve_coordinate_systems"
    /\ ~op[1].panic

\* the new half-edge at position i has the path and boundary of the one it
\* replaces, both reversed, and a curve newly derived from that one's curve
CoordsReversedAt(i) ==
    LET new == cycle[i]
        old == original[i]
    IN  /\ geometry[new].path = PathReverse(geometry[old].path)
        /\ geometry[new].boundary = <<geometry[old].boundary[2], geometry[old].boundary[1]>>
        /\ objects[new].curve \notin op[1].curves_before
        /\ curves[objects[new].curve] = objects[old].curve
        /\ derived[new] = old

\* C11 as stated: reverse_curve_coordinate_systems gives every half-edge of
\* the cycle a new half-edge with the reversed path, the swapped boundary, a
\* newly derived curve, and as start vertex the END vertex of the original
\* half-edge (the start vertex of the half-edge after it in the cycle).
CoordsReversalStartsAtEnd ==
    CoordsReversed =>
        /\ Len(cycle) = Len(original)
        /\ \A i \in 1 .. Len(cycle) :
              /\ CoordsReversedAt(i)
              /\ objects[cycle[i]].start_vertex =
                     objects[original[(i % Len(original)) + 1]].start_vertex

\* C11 amended: reverse_curve_coordinate_systems gives every half-edge of the
\* cycle a new half-edge with the reversed path, the swapped boundary, a newly
\* derived curve, and the START vertex of the original half-edge; the order of
\* the cycle is kept.
CoordsReversalKeepsStart ==
    CoordsReversed =>
        /\ Len(cycle) = Len(original)
        /\ \A i \in 1 .. Len(cycle) :
              /\ CoordsReversedAt(i)
              /\ objects[cycle[i]].start_vertex = objects[original[i]].start_vertex

\* a cycle whose first half-edge does not end where it starts has been reversed
CoordsReversalWitness ==
    /\ CoordsReversed
    /\ Len(cycle) >= 2
    /\ objects[original[1]].start_vertex # objects[original[2]].start_vertex
    /\ objects[cycle[1]].start_vertex = objects[original[1]].start_vertex

(***************************************************************************)
(* Properties of the curve-geometry-mismatch check.                        *)
(***************************************************************************)
ShellChecked == Len(findings) = 1

Found == findings[1]

Positions == 1 .. Len(shell)

\* the curve coordinates a, a+(d-a)/3, a+2(d-a)/3, d of a boundary [a, d]
FourSamples(boundary) ==
    LET a == boundary[1]
        d == boundary[2]
    IN  {a, d} \cup {t \in -(4 * TAU) .. (4 * TAU) :
                        3 * (t - a) = d - a \/ 3 * (t - a) = 2 * (d - a)}

ImageAt(i, t) ==
    PointFromSurfaceCoords(shell[i][2],
        PointFromPathCoords(geometry[shell[i][1]].path, t))

\* the images of t under the half-edges at i and j are more than
\* identical_max_distance apart
Apart(i, j, t) ==
    LET d2 == DistanceSquared(ImageAt(i, t), ImageAt(j, t))
        m == config.identical_max_distance
    IN  Positive(d2[1] - 4 * m * m, d2[2])

SameCurve(i, j) == objects[shell[i][1]].curve = objects[shell[j][1]].curve

\* the check has a finding for the half-edges at i and j at t
FoundAt(i, j, t) ==
    \E f \in 1 .. Len(Found) :
        /\ Found[f].half_edge_a = shell[i][1]
        /\ Found[f].half_edge_b = shell[j][1]
        /\ Found[f].point_curve = t
        /\ Found[f].point_a = ImageAt(i, t)
        /\ Found[f].point_b = ImageAt(j, t)

\* the number of samples, counted as often as the code visits them, at which
\* the half-edges at i and j are apart
MismatchesOf(i, j) ==
    LET b == geometry[shell[i][1]].boundary
        ts == << b[1], b[1] + ExactDiv(b[2] - b[1], 3),
                 b[1] + ExactDiv(2 * (b[2] - b[1]), 3), b[2] >>
    IN  Cardinality({k \in 1 .. 4 : Apart(i, j, ts[k])})

\* C12: the check yields a finding for half-edges A and B at t exactly when A
\* and B are different half-edges on the same curve, t is one of the four
\* samples of A's boundary and the images of t are strictly more than
\* identical_max_distance apart; every such finding is returned, a half-edge
\* is never compared with itself, and different curves give no finding.
MismatchFindings ==
    ShellChecked =>
        /\ \A i, j \in Positions :
              \A t \in FourSamples(geometry[shell[i][1]].boundary) :
                 FoundAt(i, j, t) <=>
                    /\ shell[i][1] # shell[j][1]
                    /\ SameCurve(i, j)
                    /\ Apart(i, j, t)
        /\ \A f \in 1 .. Len(Found) :
              \E i, j \in Positions :
                 \E t \in FourSamples(geometry[shell[i][1]].boundary) :
                    /\ FoundAt(i, j, t)
                    /\ Found[f].half_edge_a = shell[i][1]
                    /\ Found[f].half_edge_b = shell[j][1]
                    /\ Found[f].point_curve = t
        /\ LET count == [k \in Positions \X Positions |->
                   IF shell[k[1]][1] # shell[k[2]][1] /\ SameCurve(k[1], k[2])
                   THEN MismatchesOf(k[1], k[2]) ELSE 0]
           IN  Len(Found) = SumOver(count, Positions \X Positions)

\* a check that found a mismatch, passed a pair that is exactly
\* identical_max_distance apart, and met two half-edges on different curves
MismatchFindingsWitness ==
    /\ ShellChecked
    /\ Len(Found) > 0
    /\ config.identical_max_distance > 0
    /\ \E i, j \in Positions :
          /\ shell[i][1] # shell[j][1]
          /\ SameCurve(i, j)
          /\ DistanceSquared(ImageAt(i, 0), ImageAt(j, 0)) =
                <<4 * config.identical_max_distance * config.identical_max_distance, 0>>
          /\ ~FoundAt(i, j, 0)

\* every half-edge is listed once in the shell
DistinctHalfEdges ==
    \A i, j \in Positions : i # j => shell[i][1] # shell[j][1]

\* the number of findings that name a as half_edge_a and b as half_edge_b
FindingsFor(a, b) ==
    Cardinality({f \in 1 .. Len(Found) :
                    Found[f].half_edge_a = a /\ Found[f].half_edge_b = b})

\* C13 as stated: every unordered pair of distinct half-edges sharing a curve
\* is examined once: at most four findings for a pair {A, B}, and never a
\* finding for (A, B) together with one for (B, A).
MismatchUnorderedPairs ==
    (ShellChecked /\ DistinctHalfEdges) =>
        \A i, j \in Positions :
            i # j =>
               /\ FindingsFor(shell[i][1], shell[j][1])
                     + FindingsFor(shell[j][1], shell[i][1]) <= 4
               /\ ~ /\ FindingsFor(shell[i][1], shell[j][1]) > 0
                     /\ FindingsFor(shell[j][1], shell[i][1]) > 0

\* C13 amended: every ordered pair of distinct half-edges sharing a curve is
\* examined: at most four findings for (A, B), at the samples of A's boundary,
\* and at most four for (B, A), at the samples of B's boundary; a pair that
\* is apart at a sample of A's boundary has a finding for (A, B), and a
\* mismatch at a parameter sampled for both is found in both orders.
MismatchOrderedPairs ==
    (ShellChecked /\ DistinctHalfEdges) =>
        \A i, j \in Positions :
            i # j =>
               /\ FindingsFor(shell[i][1], shell[j][1]) <= 4
               /\ FindingsFor(shell[i][1], shell[j][1])
                     + FindingsFor(shell[j][1], shell[i][1]) <= 8
               /\ \A t \in FourSamples(geometry[shell[i][1]].boundary) :
                     (SameCurve(i, j) /\ Apart(i, j, t)) =>
                        /\ FindingsFor(shell[i][1], shell[j][1]) > 0
                        /\ t \in FourSamples(geometry[shell[j][1]].boundary)
                              => FoundAt(j, i, t)

\* one pair of half-edges has findings in both orders, more than four in all
MismatchOrderedPairsWitness ==
    /\ ShellChecked
    /\ DistinctHalfEdges
    /\ \E i, j \in Positions :
          /\ FindingsFor(shell[i][1], shell[j][1]) > 0
          /\ FindingsFor(shell[j][1], shell[i][1]) > 0
          /\ FindingsFor(shell[i][1], shell[j][1])
                + FindingsFor(shell[j][1], shell[i][1]) > 4

\* every two half-edges of the shell sh that share a curve map each curve
\* parameter to the same 3D point
Consistent(sh) ==
    \A i, j \in 1 .. Len(sh) :
        objects[sh[i][1]].curve = objects[sh[j][1]].curve =>
           \A t \in -TAU .. TAU :
              GlobalImage(geometry, sh[i][1], sh[i][2], t) =
                 GlobalImage(geometry, sh[j][1], sh[j][2], t)

\* the latest operation replaced one of two half-edges of a consistent shell
\* that share a curve by its reversal, and the shell has been checked since
ReversedInConsistentShell ==
    /\ Len(op) = 1
    /\ op[1].kind = "update_half_edge"
    /\ ShellChecked
    /\ Consistent(op[1].before)
    /\ \E j \in 1 .. Len(op[1].before) :
          /\ j # op[1].index
          /\ op[1].before[j][1] # op[1].replaced
          /\ objects[op[1].before[j][1]].curve = objects[op[1].replaced].curve

FaceValidated == Len(errors) = 1

Errors == errors[1]

NonEmptyInteriors(f) == {k \in 1 .. Len(f.interiors) : Len(f.interiors[k]) > 0}

\* the interior cycles of f with half-edges that wind as the exterior of f does
WoundAsExterior(f) ==
    {k \in NonEmptyInteriors(f) :
        Winding(geometry, f.interiors[k]) = Winding(geometry, f.exterior)}

\* C15: for a face whose exterior has a half-edge, the check records exactly
\* one InvalidInteriorWinding, with both windings and the face, for each
\* interior cycle that has a half-edge and winds as the exterior does, and
\* none for any other; a face whose exterior has no half-edge gives none.
InteriorWindingCheck ==
    FaceValidated =>
        IF Len(face.exterior) = 0
        THEN Len(Errors) = 0
        ELSE /\ Len(Errors) = Cardinality(WoundAsExterior(face))
             /\ \A e \in 1 .. Len(Errors) :
                   /\ Errors[e].exterior_winding = Winding(geometry, face.exterior)
                   /\ Errors[e].interior_winding = Winding(geometry, face.exterior)
                   /\ Errors[e].face = face

\* of two interior cycles with half-edges, one was reported and one was not
InteriorWindingCheckWitness ==
    /\ FaceValidated
    /\ Len(face.exterior) > 0
    /\ Cardinality(NonEmptyInteriors(face)) = 2
    /\ Len(Errors) = 1

\* the points that the half-edges of a cycle start at
PointsOf(cyc) ==
    [i \in 1 .. Len(cyc) |->
        << Whole(StartPositionOf(geometry, cyc[i])[1]),
           Whole(StartPositionOf(geometry, cyc[i])[2]) >>]

\* the face of the test: exterior [[0,0],[3,0],[0,3]], interior [[1,1],[1,2],[2,1]]
IsTestFace(f) ==
    /\ PointsOf(f.exterior) = TriangleExterior.points
    /\ Len(f.interiors) = 1
    /\ PointsOf(f.interiors[1]) = TriangleInterior.points

TestFaceAsBuilt == FaceValidated /\ Len(op) = 0 /\ IsTestFace(face)

TestFaceReversed ==
    /\ FaceValidated
    /\ Len(op) = 1
    /\ op[1].kind = "reverse_interiors"
    /\ reversals = 1
    /\ IsTestFace(op[1].before)

\* C16 as stated: the face with exterior [[0,0],[3,0],[0,3]] and interior
\* [[1,1],[1,2],[2,1]] produces an InvalidInteriorWinding, and the face with
\* that interior reversed produces none.
WindingScenarioAsStated ==
    /\ TestFaceAsBuilt => Len(Errors) >= 1
    /\ TestFaceReversed => Len(Errors) = 0

\* C16 amended: the face with exterior [[0,0],[3,0],[0,3]] and interior
\* [[1,1],[1,2],[2,1]] produces no InvalidInteriorWinding (the interior, as
\* listed, winds clockwise, the exterior counter-clockwise), and the face with
\* that interior reversed produces one.
WindingScenario ==
    /\ TestFaceAsBuilt =>
          /\ Len(Errors) = 0
          /\ Winding(geometry, face.exterior) = "Ccw"
          /\ Winding(geometry, face.interiors[1]) = "Cw"
    /\ TestFaceReversed =>
          /\ Len(Errors) = 1
          /\ Errors[1].exterior_winding = "Ccw"
          /\ Errors[1].interior_winding = "Ccw"

\* the face of the test was validated, its interior reversed, and validated
WindingScenarioWitness ==
    /\ TestFaceReversed
    /\ Len(op[1].errors_before) = 1
    /\ Len(op[1].errors_before[1]) = 0
    /\ Len(Errors) = 1

\* the face was validated, its interiors were reversed, and it was validated
ValidatedBeforeAndAfter ==
    /\ FaceValidated
    /\ Len(op) = 1
    /\ op[1].kind = "reverse_interiors"
    /\ Len(op[1].errors_before) = 1
    /\ Len(face.exterior) > 0

\* C17: for a face with a non-empty exterior, replacing a non-empty interior
\* cycle by its reversal flips the winding of that cycle, so the check
\* reports it in exactly one of the two faces.
ReversalTogglesFinding ==
    ValidatedBeforeAndAfter =>
        /\ \A k \in NonEmptyInteriors(op[1].before) :
              /\ {Winding(geometry, face.interiors[k]),
                  Winding(geometry, op[1].before.interiors[k])} = {"Cw", "Ccw"}
              /\ (k \in WoundAsExterior(op[1].before)) # (k \in WoundAsExterior(face))
        /\ Len(op[1].errors_before[1]) + Len(Errors)
              = Cardinality(NonEmptyInteriors(op[1].before))

\* a reversal made the finding for an interior cycle appear
ReversalTogglesFindingWitness ==
    /\ ValidatedBeforeAndAfter
    /\ NonEmptyInteriors(face) # {}
    /\ Len(op[1].errors_before[1]) < Len(Errors)

(***************************************************************************)
(* Joining cycles.                                                         *)
(***************************************************************************)
\* the number of indices of a RangeInclusive<usize>
RangeLength(range) == IF range[1] <= range[2] THEN range[2] - range[1] + 1 ELSE 0

\* join_to was called
Joined == Len(op) = 1 /\ op[1].kind = "join_to"

\* nothing was created, inserted or given geometry
StoreUntouched ==
    /\ objects = op[1].objects_before
    /\ geometry = op[1].geometry_before
    /\ cycle = op[1].self

\* C18: when the two ranges given to join_to have different lengths, the
\* operation panics, and the object store and the geometry layer are as they
\* were before the call.
JoinRejectsMismatchedRanges ==
    (Joined /\ RangeLength(op[1].range) # RangeLength(op[1].range_other)) =>
        op[1].panic /\ StoreUntouched

\* the same in a build with overflow checks, where the subtraction of an
\* empty range is itself a panic
JoinRejectsMismatchedRangesChecked ==
    (/\ Joined
     /\ op[1].overflow_checks
     /\ RangeLength(op[1].range) # RangeLength(op[1].range_other)) =>
        op[1].panic /\ StoreUntouched

\* position of an index in a cycle of n half-edges, counted from 1
Position(index, n) == (index % n) + 1

\* the half-edge at position index of self was joined to the half-edge at
\* position index_other of the other cycle
JoinedAt(index, index_other) ==
    LET n == Len(cycle)
        m == Len(other)
        here == objects[cycle[Position(index, n)]]
        next == objects[cycle[Position(index + 1, n)]]
        there == objects[other[Position(index_other, m)]]
        there_next == objects[other[Position(index_other + 1, m)]]
    IN  /\ here.curve = there.curve
        /\ here.start_vertex = there_next.start_vertex
        /\ next.start_vertex = there.start_vertex

\* C19: for two ranges of the same length, at least 1, join_to returns a
\* cycle as long as self, in which for every zipped pair of indices (i, j),
\* taken modulo the lengths of the cycles, the half-edge at i has the curve of
\* the other's half-edge j and the start vertex of its half-edge j + 1, and
\* the half-edge at i + 1 has the start vertex of the other's half-edge j;
\* every half-edge has the geometry of the one it stands for.
JoinToJoinsEveryIndexedEdge ==
    (/\ Joined
     /\ RangeLength(op[1].range) >= 1
     /\ RangeLength(op[1].range) = RangeLength(op[1].range_other)
     /\ Len(op[1].self) >= 1
     /\ Len(other) >= 1) =>
        /\ ~op[1].panic
        /\ Len(cycle) = Len(op[1].self)
        /\ \A k \in 0 .. RangeLength(op[1].range) - 1 :
              JoinedAt(op[1].range[1] + k, op[1].range_other[1] + k)
        /\ \A p \in 1 .. Len(cycle) :
              geometry[cycle[p]] = op[1].geometry_before[op[1].self[p]]

\* the same for ranges of one index, in cycles of at least two half-edges,
\* with both indices below usize::MAX
JoinToJoinsOneIndexedEdge ==
    (/\ Joined
     /\ RangeLength(op[1].range) = 1
     /\ RangeLength(op[1].range_other) = 1
     /\ op[1].range[1] < UsizeMax
     /\ op[1].range_other[1] < UsizeMax
     /\ Len(op[1].self) >= 2
     /\ Len(other) >= 1) =>
        /\ ~op[1].panic
        /\ Len(cycle) = Len(op[1].self)
        /\ JoinedAt(op[1].range[1], op[1].range_other[1])
        /\ \A p \in 1 .. Len(cycle) :
              geometry[cycle[p]] = op[1].geometry_before[op[1].self[p]]

\* add_joined_edges was called
EdgesAdded == Len(op) = 1 /\ op[1].kind = "add_joined_edges"

\* the provided pair that the i-th new half-edge is made for: the second of
\* the i-th circular window
ProvidedFor(i) == op[1].edges[(i % Len(op[1].edges)) + 1]

\* the place of a provided pair in the order of the define_curve calls
DefinedAs(p) == IF p = 1 THEN Len(op[1].edges) ELSE p - 1

Kept(m, n) == \A k \in DOMAIN m : k \in DOMAIN n /\ n[k] = m[k]

\* C21: a half-edge approximation changes neither the topology nor the
\* geometry; in the cache every entry present before is still there with its
\* value, and the only keys it can add are the start vertex of the half-edge
\* and its (curve, boundary).
ApproxReadOnlyApartFromCache ==
    [][/\ UNCHANGED <<objects, geometry, cycle, curves, curve_geom>>
       /\ last'[1].edge \in HalfEdges
       /\ last'[1].surface \in Surfaces
       /\ Kept(cache.start_position, cache'.start_position)
       /\ Kept(cache.curve_approx, cache'.curve_approx)
       /\ DOMAIN cache'.start_position \ DOMAIN cache.start_position
             \subseteq {last'[1].edge.start_vertex}
       /\ DOMAIN cache'.curve_approx \ DOMAIN cache.curve_approx
             \subseteq {<<last'[1].edge.curve, last'[1].edge.boundary>>}]_vars

\* an approximation added a start vertex and a curve entry to a cache that
\* held entries of both kinds
ApproxReadOnlyWitness ==
    /\ Len(last) = 1
    /\ ~last[1].panic
    /\ DOMAIN last[1].before.start_position # {}
    /\ DOMAIN last[1].before.curve_approx # {}
    /\ last[1].edge.start_vertex \notin DOMAIN last[1].before.start_position
    /\ last[1].edge.start_vertex \in DOMAIN cache.start_position
    /\ <<last[1].edge.curve, last[1].edge.boundary>>
           \in DOMAIN cache.curve_approx \ DOMAIN last[1].before.curve_approx

\* the curve and the unordered boundary interval of a cache key
Interval(key) == <<key[1], {key[2][1], key[2][2]}>>

ExactVerticesInEdgeApprox ==
    edge_approx.done =>
        LET given == edge_approx.given
            points == edge_approx.points
            n == Len(given)
        IN  IF Len(edge_approx.vertices) = 1
            THEN LET a == edge_approx.vertices[1][1]
                     b == edge_approx.vertices[1][2]
                 IN  /\ Len(points) = n + 2
                     /\ points[1] = <<a.position, a.global.position>>
                     /\ \A i \in 1 .. n : points[i + 1] = given[i]
                     /\ points[n + 2] = <<b.position, b.global.position>>
            ELSE IF n = 0 THEN points = << >>
            ELSE /\ Len(points) = n + 1
                 /\ \A i \in 1 .. n : points[i] = given[i]
                 /\ points[n + 1] = given[1]

\* the continuous edge of the test: no vertices, two different points
ExactVerticesWitness ==
    /\ edge_approx.done
    /\ edge_approx.vertices = << >>
    /\ edge_approx.given = << <<25, 235>>, <<75, 358>> >>
    /\ Len(edge_approx.points) = 3

(***************************************************************************)
(* Properties of the trapezoidation tree.                                  *)
(***************************************************************************)
\* the latest split and the ids it allocated
LastSplit == tree_ops.splits[Len(tree_ops.splits)]

NewLeafOf(split) == split.before.next_id

NewBranchOf(split) == split.before.next_id + 1

\* what holds of the tree whenever the latest split returned
TreeSplitAddsBranchWhenReturning ==
    ~tree.panic =>
        /\ Cardinality(Leafs(tree)) = Len(tree_ops.splits) + 1
        /\ Len(tree_ops.splits) > 0 =>
              LET split == LastSplit
                  branch == NewBranchOf(split)
                  related(relation) ==
                      [panic |-> FALSE,
                       some |-> <<[parent_id |-> branch,
                                   branch |-> split.split_with,
                                   relation |-> relation]>>]
              IN  /\ NewLeafOf(split) \in Leafs(tree) \ DOMAIN split.before.map
                  /\ split.split_at \in Leafs(tree)
                  /\ branch \in DOMAIN tree.map \ DOMAIN split.before.map
                  /\ tree.map[branch].kind = "Branch"
                  /\ parent_of(tree, split.split_at) = related("Above")
                  /\ parent_of(tree, NewLeafOf(split)) = related("Below")
                  /\ tree.map[branch].parent = split.before.map[split.split_at].parent

\* C23: a new tree has exactly one leaf and after n splits it has n + 1; after
\* split(leaf, b) the split leaf is the Above child and the newly created
\* leaf the Below child of the new branch, which carries b and has as parent
\* the node that was the parent of the split leaf.
TreeSplitAddsBranch ==
    /\ ~tree.panic
    /\ TreeSplitAddsBranchWhenReturning

\* the second split of the test: a leaf that has a parent was split
TreeSplitWitness ==
    /\ ~tree.panic
    /\ Len(tree_ops.splits) = 2
    /\ Len(LastSplit.before.map[LastSplit.split_at].parent) = 1
    /\ Cardinality(Leafs(tree)) = 3

\* C24: after any sequence of splits every node that has a parent is the above
\* or below child of that parent, the children of every branch name it as
\* their parent, and parent_of panics for no node of the tree.
TreeParentChildConsistent ==
    ~tree.panic =>
        /\ \A id \in DOMAIN tree.map :
              Len(tree.map[id].parent) = 1 =>
                  LET parent == tree.map[tree.map[id].parent[1]]
                  IN  parent.kind = "Branch"
                      /\ (parent.above = <<id>> \/ parent.below = <<id>>)
        /\ \A id \in DOMAIN tree.map :
              tree.map[id].kind = "Branch" =>
                  /\ tree.map[tree.map[id].above[1]].parent = <<id>>
                  /\ tree.map[tree.map[id].below[1]].parent = <<id>>
        /\ \A id \in DOMAIN tree.map : ~parent_of(tree, id).panic

(***************************************************************************)
(* Properties of the query graph.                                          *)
(***************************************************************************)
\* C25: a new graph holds exactly the source node Id(0) with the default
\* sink; the ids returned by insert_sink are pairwise distinct and differ from
\* the source, get(id) gives the sink inserted under id, and an insert leaves
\* the node of every id that existed before as it was.
GraphAppendOnly ==
    LET inserted == graph_ops.inserted
    IN  /\ Len(inserted) = 0 => graph.nodes = (Source :> SinkNode(DefaultSink))
        /\ \A i \in 1 .. Len(inserted) :
              /\ inserted[i].id # Source
              /\ \A j \in 1 .. Len(inserted) :
                    inserted[j].id = inserted[i].id => j = i
              /\ Get(graph, inserted[i].id)
                    = [panic |-> FALSE, node |-> <<SinkNode(inserted[i].sink)>>]
              /\ \A id \in DOMAIN inserted[i].before.nodes :
                    /\ id \in DOMAIN graph.nodes
                    /\ graph.nodes[id] = inserted[i].before.nodes[id]
        /\ Len(graph_ops.got) = 1 =>
              /\ ~graph_ops.got[1].panic
              /\ graph_ops.got[1].id = Source =>
                    graph_ops.got[1].node = <<SinkNode(DefaultSink)>>

\* the first of three inserted sinks was read back after the other inserts
GraphAppendOnlyWitness ==
    /\ Len(graph_ops.inserted) = 3
    /\ Len(graph_ops.got) = 1
    /\ graph_ops.got[1].id = graph_ops.inserted[1].id
    /\ graph_ops.got[1].node = <<SinkNode(graph_ops.inserted[1].sink)>>
    /\ graph_ops.inserted[2].sink # graph_ops.inserted[1].sink

(***************************************************************************)
(* Properties of the segments of a shape.                                  *)
(***************************************************************************)
\* the segments edge_segments returned
Segments == ng_shape.segments[1]

\* segment joins two consecutive vertices of an edge of the shape
WithinAnEdge(segment) ==
    \E e \in 1 .. Len(ng_shape.edges) :
        \E i \in 1 .. Len(ng_shape.edges[e]) - 1 :
            segment = <<ng_shape.edges[e][i], ng_shape.edges[e][i + 1]>>

\* the pairs (last vertex of an edge, first vertex of the edge after it) of
\* edges that are not connected
Gaps ==
    {<<ng_shape.edges[e][Len(ng_shape.edges[e])], ng_shape.edges[e + 1][1]>> :
        e \in {e \in 1 .. Len(ng_shape.edges) - 1 :
                  /\ Len(ng_shape.edges[e]) > 0
                  /\ Len(ng_shape.edges[e + 1]) > 0
                  /\ ng_shape.edges[e][Len(ng_shape.edges[e])]
                         # ng_shape.edges[e + 1][1]}}

\* C26: every segment of edge_segments joins two consecutive vertices of one
\* edge of edge_vertices; no segment has length zero, the vertex shared by
\* two connected edges being used once; and no segment joins the last vertex
\* of an edge to the first vertex of a following edge not connected to it.
EdgeSegmentsWithinEdges ==
    Len(ng_shape.segments) = 1 =>
        /\ \A s \in 1 .. Len(Segments) : WithinAnEdge(Segments[s])
        /\ \A s \in 1 .. Len(Segments) : Segments[s][1] # Segments[s][2]
        /\ \A s \in 1 .. Len(Segments) : Segments[s] \notin Gaps

\* the same for shapes whose edges form one chain: every edge that has
\* vertices starts where the edge with vertices before it ends
EdgeSegmentsOfConnectedEdges ==
    (/\ Len(ng_shape.segments) = 1
     /\ \A e \in 1 .. Len(ng_shape.edges) : Len(ng_shape.edges[e]) > 0
     /\ Gaps = {}) =>
        /\ \A s \in 1 .. Len(Segments) : WithinAnEdge(Segments[s])
        /\ \A s \in 1 .. Len(Segments) : Segments[s][1] # Segments[s][2]

(***************************************************************************)
(* Properties of Model::load.                                              *)
(***************************************************************************)
\* the positions of an event in the events of the current load
At(event) == {i \in 1 .. Len(load.events) : load.events[i] = event}

Happened(event) == At(event) # {}

InitInvoked == Happened(Event("init_ok", 0)) \/ Happened(Event("init_err", 0))

\* the current load returned this result
Returns(result) == load.pc = "returned" /\ load.result = <<result>>

\* C27: init is invoked only after the build succeeded and version_pkg of the
\* library equalled the host's; a failed build returns Error::Compile with no
\* library loaded; a different version returns Error::VersionMismatch with
\* init not invoked; an init error returns Error::InitializeModel; a
\* successful init without a registered model returns Error::NoModelRegistered;
\* and a LoadedShape is returned only when every step succeeded.
ModelLoadingOrder ==
    /\ \A i \in 1 .. Len(load.events) :
          load.events[i] \in {Event("init_ok", 0), Event("init_err", 0)} =>
              /\ \E j \in 1 .. i - 1 : load.events[j] = Event("build_succeeded", 0)
              /\ \E j \in 1 .. i - 1 :
                    load.events[j] = Event("version_pkg", load.host_version)
              /\ \A j \in 1 .. Len(load.events) :
                    load.events[j] \in {Event("version_pkg", v) : v \in Versions}
                        => j < i /\ load.events[j].version = load.host_version
    /\ Happened(Event("build_failed", 0)) =>
          /\ Returns(Err("Compile"))
          /\ ~Happened(Event("library_loaded", 0))
          /\ ~InitInvoked
    /\ Returns(Err("Compile")) => Happened(Event("build_failed", 0))
    /\ (\E v \in Versions \ {load.host_version} : Happened(Event("version_pkg", v))) =>
          /\ Returns(Err("VersionMismatch"))
          /\ ~InitInvoked
    /\ Happened(Event("init_err", 0)) => Returns(Err("InitializeModel"))
    /\ (Happened(Event("init_ok", 0)) /\ ~load.registered /\ load.pc = "returned") =>
          Returns(Err("NoModelRegistered"))
    /\ Returns(LoadedShape) =>
          load.events = <<Event("build_succeeded", 0), Event("library_loaded", 0),
                          Event("version_pkg", load.host_version), Event("init_ok", 0),
                          Event("model_taken", 0), Event("shape", 0)>>
          /\ load.registered

\* a second load returned a shape after a first one failed on the version
ModelLoadingWitness ==
    /\ Returns(LoadedShape)
    /\ Len(load.history) = 2
    /\ load.history[1] = Err("VersionMismatch")

==============================================================================
